---- MODULE Spec2Model ----
(***************************************************************************)
(* A model of the retrieval engine of DEVONthink_agent: the VectorStore    *)
(* (src/src/rag/index-manager.ts, store.ts part), the index builder        *)
(* buildIndex (same file) and the fusion search hybridSearch               *)
(* (src/src/rag/hybrid-search.ts).                                         *)
(*                                                                         *)
(* Numbers.  A JavaScript number is modelled by an integer (every integer  *)
(* of the model is exactly representable as a double).  A Float32Array     *)
(* element is the float32 rounding (Fround) of the number written to it.   *)
(* NaN, which a Float32Array stores when `undefined` is written, is the    *)
(* sentinel NaN.                                                           *)
(***************************************************************************)
EXTENDS Integers, Sequences, FiniteSets, TLC

\* ------------------------------------------------------------------ bounds

\* Vector dimensionality handed to the VectorStore constructor.
Dims == 2
\* Most chunks one upsertDocument call of the store-level model supplies.
MaxNewChunks == 2
\* Most chunks the store-level model lets the store hold.
MaxTotalChunks == 3

\* ---------------------------------------------------------------- constants

\* Smallest capacity upsertDocument grows the Float32Array to.
MinCapacity == 4096
\* Chunks embedded per embedBatch call.
EMBED_BATCH_SIZE == 50
\* Progress is logged every PROGRESS_INTERVAL documents.
PROGRESS_INTERVAL == 10

\* ------------------------------------------------------------------ values

Docs == {"d1", "d2"}
\* modificationDate strings of the listing; a document version carries one.
Dates == {"t1", "t2"}
\* The content of a document changes with its modificationDate: the text of
\* a chunk is named after the date of the version it was cut from.
TextOf(date) == date

\* The number a Float32Array holds where `undefined` or NaN was written.
NaN == -2147483647

Max(a, b) == IF a >= b THEN a ELSE b
Min(a, b) == IF a <= b THEN a ELSE b
Abs(x) == IF x < 0 THEN -x ELSE x

\* Largest power of two q with |x| / q < 2^24: the spacing of float32 at x.
RECURSIVE Ulp(_, _)
Ulp(ax, q) == IF ax \div q < 16777216 THEN q ELSE Ulp(ax, 2 * q)

\* Math.fround on integers: round to 24 significant bits, ties to even.
Fround(x) ==
  IF x = NaN THEN NaN
  ELSE LET ax == Abs(x)
           q == Ulp(ax, 1)
           r == ax % q
           lo == ax - r
           up == IF 2 * r > q THEN lo + q
                 ELSE IF 2 * r < q THEN lo
                 ELSE IF (lo \div q) % 2 = 0 THEN lo ELSE lo + q
       IN IF x < 0 THEN -up ELSE up

FroundVec(v) == [j \in 1..Len(v) |-> Fround(v[j])]

\* The vectors an embedder may return: Dims numbers each, counted up from a
\* seed.  Above 2^24 every second integer is no float32.
Vec(seed) == [j \in 1..Dims |-> seed + (j - 1)]
\* The embedding of a text depends on the text: the chunks of the version
\* dated "t1" embed from -7 on, those of the other version from 2^24 + 1 on.
SeedOf(text) == IF text = "t1" THEN -7 ELSE 16777217

\* ------------------------------------------------------------ Float32Array

\* A Float32Array of length cap: data holds its first Len(data) elements,
\* every later element is 0 (typed arrays are zero-initialised).
NewFloat32Array(n) == [cap |-> n, data |-> <<>>]

\* a[idx], idx counted from 0; reading past the end gives undefined.
F32Get(a, idx) ==
  IF idx < 0 \/ idx >= a.cap THEN NaN
  ELSE IF idx < Len(a.data) THEN a.data[idx + 1] ELSE 0

\* a[idx] = v; a write past the end is ignored.
F32Set(a, idx, v) ==
  IF idx < 0 \/ idx >= a.cap THEN a
  ELSE [a EXCEPT !.data =
          [k \in 1..Max(Len(a.data), idx + 1) |->
             IF k = idx + 1 THEN Fround(v)
             ELSE IF k <= Len(a.data) THEN a.data[k] ELSE 0]]

\* a.subarray(0, n) as a sequence of n numbers.
Subarray(a, n) == [k \in 1..Min(n, a.cap) |-> F32Get(a, k - 1)]

\* a.set(seq): copies seq to the front of a.
F32SetAll(a, seq) ==
  [a EXCEPT !.data = [k \in 1..Max(Len(a.data), Len(seq)) |->
                        IF k <= Len(seq) THEN Fround(seq[k]) ELSE a.data[k]]]

\* newVectors[i][d] with d counted from 0: undefined past the vector's end.
NumAt(v, d) == IF d < Len(v) THEN v[d + 1] ELSE NaN

\* 2^n, and the exponent of a positive integer: the largest e with 2^e <= ax.
RECURSIVE Pow2(_)
Pow2(n) == IF n = 0 THEN 1 ELSE 2 * Pow2(n - 1)
RECURSIVE Log2(_)
Log2(ax) == IF ax < 2 THEN 0 ELSE 1 + Log2(ax \div 2)

\* The 32 bits of a Float32Array element (IEEE 754 binary32) in three
\* fields: sign, biased exponent, 23 fraction bits.  NaN is the quiet NaN.
F32Bits(v) ==
  IF v = NaN THEN [sign |-> 0, biased |-> 255, fraction |-> Pow2(22)]
  ELSE IF v = 0 THEN [sign |-> 0, biased |-> 0, fraction |-> 0]
  ELSE LET ax == Abs(v)
           e == Log2(ax)
       IN [sign |-> IF v < 0 THEN 1 ELSE 0,
           biased |-> e + 127,
           fraction |-> IF e <= 23 THEN (ax - Pow2(e)) * Pow2(23 - e)
                        ELSE (ax - Pow2(e)) \div Pow2(e - 23)]

\* The four bytes of an element, lowest first.
F32Bytes(v) ==
  LET b == F32Bits(v)
  IN <<b.fraction % 256,
       (b.fraction \div 256) % 256,
       b.fraction \div 65536 + 128 * (b.biased % 2),
       b.biased \div 2 + 128 * b.sign>>

\* The element four bytes stand for (the model holds integers only).
F32FromBytes(b0, b1, b2, b3) ==
  LET sign == b3 \div 128
      biased == 2 * (b3 % 128) + b2 \div 128
      fraction == b0 + 256 * b1 + 65536 * (b2 % 128)
      e == biased - 127
      ax == IF biased = 0 \/ e < 0 THEN 0
            ELSE IF e >= 23 THEN (Pow2(23) + fraction) * Pow2(e - 23)
            ELSE (Pow2(23) + fraction) \div Pow2(23 - e)
  IN IF biased = 255 THEN NaN
     ELSE IF sign = 1 THEN -ax ELSE ax

\* Buffer.from(a.buffer, 0, 4 * n): the bytes of the first n elements.
BytesOf(a, n) ==
  [k \in 1..(4 * Min(n, a.cap)) |->
     F32Bytes(F32Get(a, (k - 1) \div 4))[((k - 1) % 4) + 1]]

\* new Float32Array(ab) over a buffer of bytes, its length a multiple of 4.
Float32ArrayOf(bytes) ==
  [cap |-> Len(bytes) \div 4,
   data |-> [i \in 1..(Len(bytes) \div 4) |->
               F32FromBytes(bytes[4 * i - 3], bytes[4 * i - 2],
                            bytes[4 * i - 1], bytes[4 * i])]]

\* ------------------------------------------------------------- VectorStore

\* new VectorStore(dimensions): the fields of the object after construction.
VectorStore(dimensions) ==
  [chunks |-> <<>>,
   vectors |-> NewFloat32Array(0),
   vectorsUsed |-> 0,
   meta |-> [dimensions |-> dimensions, totalChunks |-> 0,
             totalDocuments |-> 0, documents |-> <<>>],
   dimensions |-> dimensions,
   loaded |-> FALSE]

\* get totalChunks()
totalChunks(s) == Len(s.chunks)

\* isReady()
isReady(s) == s.loaded /\ Len(s.chunks) > 0

\* needsReindex(uuid, modificationDate)
needsReindex(s, uuid, modificationDate) ==
  \/ uuid \notin DOMAIN s.meta.documents
  \/ s.meta.documents[uuid].modificationDate # modificationDate

\* The indices (from 1) of the chunks removeDocument keeps, in order.
keepIndices(s, uuid) ==
  SelectSeq([i \in 1..Len(s.chunks) |-> i],
            LAMBDA i : s.chunks[i].uuid # uuid)

\* for (d = 0; d < dims; d++) vectors[dst + d] = vectors[src + d]
RECURSIVE CopySlice(_, _, _, _, _)
CopySlice(a, src, dst, d, dims) ==
  IF d >= dims THEN a
  ELSE CopySlice(F32Set(a, dst + d, F32Get(a, src + d)), src, dst, d + 1, dims)

\* The in-place compaction loop of removeDocument over keepIndices, step by
\* step; k is writePos + 1.
RECURSIVE CompactLoop(_, _, _, _)
CompactLoop(a, keep, k, dims) ==
  IF k > Len(keep) THEN a
  ELSE LET src == (keep[k] - 1) * dims
           dst == (k - 1) * dims
       IN CompactLoop(IF src # dst THEN CopySlice(a, src, dst, 0, dims) ELSE a,
                      keep, k + 1, dims)

\* The array the compaction loop leaves, cell by cell.  The loop writes
\* cells in increasing order and reads cell src + d >= dst + d, which no
\* earlier iteration has written, so every read sees the array as it was
\* before the loop (LoopsAgree checks this against CompactLoop).
Compact(a, keep, dims) ==
  LET top == Min(Len(keep) * dims, a.cap)
      srcOf(p) == (keep[(p \div dims) + 1] - 1) * dims + (p % dims)
  IN [a EXCEPT !.data =
        [k \in 1..Max(Len(a.data), top) |->
           IF k <= top /\ srcOf(k - 1) # k - 1
           THEN Fround(F32Get(a, srcOf(k - 1)))
           ELSE F32Get(a, k - 1)]]

\* delete documents[uuid]
DeleteKey(docs, uuid) == [u \in (DOMAIN docs) \ {uuid} |-> docs[u]]

\* documents[uuid] = entry
PutKey(docs, uuid, entry) ==
  [u \in (DOMAIN docs) \cup {uuid} |-> IF u = uuid THEN entry ELSE docs[u]]

\* removeDocument that filters the chunk list and forgets to compact the
\* vector buffer.
removeDocumentNoCompact(s, uuid) ==
  LET keep == keepIndices(s, uuid)
  IN IF Len(keep) = Len(s.chunks) THEN s
     ELSE [s EXCEPT
             !.chunks = [k \in 1..Len(keep) |-> s.chunks[keep[k]]],
             !.vectorsUsed = Len(keep) * s.dimensions,
             !.meta.documents = DeleteKey(s.meta.documents, uuid)]

\* removeDocument(uuid)
removeDocument(s, uuid) ==
  LET keep == keepIndices(s, uuid)
  IN IF Len(keep) = Len(s.chunks) THEN s
     ELSE [s EXCEPT
             !.chunks = [k \in 1..Len(keep) |-> s.chunks[keep[k]]],
             !.vectors = Compact(s.vectors, keep, s.dimensions),
             !.vectorsUsed = Len(keep) * s.dimensions,
             !.meta.documents = DeleteKey(s.meta.documents, uuid)]

\* The capacity check of upsertDocument: a larger array holding the used
\* prefix when `needed` exceeds the length, else the array itself.
Grow(a, used, needed) ==
  IF needed > a.cap
  THEN LET expanded == NewFloat32Array(Max(Max(needed, a.cap * 2), MinCapacity))
       IN IF used > 0 THEN F32SetAll(expanded, Subarray(a, used)) ELSE expanded
  ELSE a

\* The copy loop of upsertDocument, step by step: vector i (from 0),
\* component d (from 0).
RECURSIVE WriteLoop(_, _, _, _, _, _)
WriteLoop(a, used, newVectors, i, d, dims) ==
  IF i >= Len(newVectors) THEN a
  ELSE IF d >= dims THEN WriteLoop(a, used, newVectors, i + 1, 0, dims)
  ELSE WriteLoop(F32Set(a, used + i * dims + d, NumAt(newVectors[i + 1], d)),
                 used, newVectors, i, d + 1, dims)

\* The array the copy loop leaves, cell by cell: each cell of the appended
\* region is written once, with component d of vector i (LoopsAgree checks
\* this against WriteLoop).
WriteVectors(a, used, newVectors, dims) ==
  LET top == Min(used + Len(newVectors) * dims, a.cap)
  IN [a EXCEPT !.data =
        [k \in 1..Max(Len(a.data), top) |->
           IF used < k /\ k <= top
           THEN Fround(NumAt(newVectors[((k - 1 - used) \div dims) + 1],
                             (k - 1 - used) % dims))
           ELSE F32Get(a, k - 1)]]

\* upsertDocument that appends without removing the old chunks first.
upsertDocumentAppendOnly(s, uuid, name, modificationDate, newChunks, newVectors) ==
  LET s1 == s
      addLength == Len(newVectors) * s1.dimensions
      needed == s1.vectorsUsed + addLength
      grown == Grow(s1.vectors, s1.vectorsUsed, needed)
  IN [s1 EXCEPT
        !.chunks = s1.chunks \o newChunks,
        !.vectors = WriteVectors(grown, s1.vectorsUsed, newVectors,
                                 s1.dimensions),
        !.vectorsUsed = s1.vectorsUsed + addLength,
        !.meta.documents =
           PutKey(s1.meta.documents, uuid,
                  [name |-> name, modificationDate |-> modificationDate,
                   chunkCount |-> Len(newChunks)])]

\* upsertDocument(uuid, name, modificationDate, newChunks, newVectors)
upsertDocument(s, uuid, name, modificationDate, newChunks, newVectors) ==
  LET s1 == removeDocument(s, uuid)
      addLength == Len(newVectors) * s1.dimensions
      needed == s1.vectorsUsed + addLength
      grown == Grow(s1.vectors, s1.vectorsUsed, needed)
  IN [s1 EXCEPT
        !.chunks = s1.chunks \o newChunks,
        !.vectors = WriteVectors(grown, s1.vectorsUsed, newVectors,
                                 s1.dimensions),
        !.vectorsUsed = s1.vectorsUsed + addLength,
        !.meta.documents =
           PutKey(s1.meta.documents, uuid,
                  [name |-> name, modificationDate |-> modificationDate,
                   chunkCount |-> Len(newChunks)])]

\* ------------------------------------------------------------------- disk

\* The three artifacts of the index directory.  st is "missing" (no file),
\* "corrupt" (a file that cannot be read or parsed: JSON.parse or
\* readFileSync throws on it) or "ok"; val is the parsed content of an "ok"
\* JSON file, and the bytes of the vectors file.
EmptyMeta == VectorStore(0).meta
NoDisk ==
  [meta |-> [st |-> "missing", val |-> EmptyMeta],
   chunks |-> [st |-> "missing", val |-> <<>>],
   vectors |-> [st |-> "missing", val |-> <<>>]]

\* indexExists()
indexExists(dk) == dk.meta.st # "missing" /\ dk.vectors.st # "missing"

\* load(): the fields after the call and the value returned.  An exception
\* leaves the assignments made before it in place.
load(s, dk) ==
  IF dk.meta.st = "missing" THEN [s |-> s, ret |-> FALSE]
  ELSE IF dk.meta.st = "corrupt" THEN [s |-> s, ret |-> FALSE]
  ELSE
    LET s1 == [s EXCEPT !.meta = dk.meta.val,
                        !.dimensions = dk.meta.val.dimensions]
    IN IF dk.chunks.st = "corrupt" THEN [s |-> s1, ret |-> FALSE]
       ELSE
         LET s2 == IF dk.chunks.st = "ok"
                   THEN [s1 EXCEPT !.chunks = dk.chunks.val] ELSE s1
         IN IF \/ dk.vectors.st = "corrupt"
               \/ dk.vectors.st = "ok" /\ Len(dk.vectors.val) % 4 # 0
            THEN [s |-> s2, ret |-> FALSE]
            ELSE
              LET s3 == IF dk.vectors.st = "ok"
                        THEN [s2 EXCEPT
                                !.vectors = Float32ArrayOf(dk.vectors.val),
                                !.vectorsUsed = Len(dk.vectors.val) \div 4]
                        ELSE s2
              IN [s |-> [s3 EXCEPT !.loaded = TRUE], ret |-> TRUE]

\* save(), first part: the meta counters it refreshes on the object.
saveCounters(s) ==
  [s EXCEPT !.meta.totalChunks = Len(s.chunks),
            !.meta.totalDocuments = Cardinality(DOMAIN s.meta.documents),
            !.meta.dimensions = s.dimensions]

\* The vectors write with the whole buffer instead of its used part.
writeVectorsWholeBuffer(s, dk) ==
  [dk EXCEPT !.vectors = [st |-> "ok", val |-> BytesOf(s.vectors, s.vectors.cap)]]

\* save(): the three writes, in the order vectors, chunks, meta.
writeVectors(s, dk) ==
  [dk EXCEPT !.vectors = [st |-> "ok", val |-> BytesOf(s.vectors, s.vectorsUsed)]]
writeChunks(s, dk) == [dk EXCEPT !.chunks = [st |-> "ok", val |-> s.chunks]]
writeMeta(s, dk) == [dk EXCEPT !.meta = [st |-> "ok", val |-> s.meta]]

\* save(): the disk after the call.
save(s, dk) ==
  LET s1 == saveCounters(s)
  IN writeMeta(s1, writeChunks(s1, writeVectors(s1, dk)))

\* A save() that writes the meta file first, then the chunks, then the
\* vectors.
savePrefixMetaFirst(s, dk, k) ==
  LET s1 == saveCounters(s)
      d1 == IF k >= 1 THEN writeMeta(s1, dk) ELSE dk
      d2 == IF k >= 2 THEN writeChunks(s1, d1) ELSE d1
  IN IF k >= 3 THEN writeVectors(s1, d2) ELSE d2

\* The disk after the first k of the three writeFileSync calls of save().
savePrefix(s, dk, k) ==
  LET s1 == saveCounters(s)
      d1 == IF k >= 1 THEN writeVectors(s1, dk) ELSE dk
      d2 == IF k >= 2 THEN writeChunks(s1, d1) ELSE d1
  IN IF k >= 3 THEN writeMeta(s1, d2) ELSE d2

\* The chunk list chunkDocument hands over for document uuid: n chunks
\* numbered from 0.
NewChunks(uuid, n, text) ==
  [k \in 1..n |-> [uuid |-> uuid, chunkIndex |-> k - 1, text |-> text]]

\* ------------------------------------------------------------- buildIndex

\* Documents the listing names (bound) and how many of them, the first ones,
\* may fail to be read or embedded (bound).
NumListed == 13
NumFragile == 3

DocIds == <<"d1", "d2", "d3", "d4", "d5", "d6", "d7", "d8", "d9", "d10",
            "d11", "d12", "d13", "d14", "d15", "d16">>

\* dt.listAllRecords(database): every document carries the date "t2".
Listing ==
  [k \in 1..NumListed |-> [uuid |-> DocIds[k], name |-> DocIds[k],
                           modificationDate |-> "t2"]]

\* The length of chunkDocument's result for the content of a document: the
\* second document needs two embedBatch calls, the third yields no chunk.
DocChunks(uuid) ==
  IF uuid = DocIds[2] THEN EMBED_BATCH_SIZE + 1
  ELSE IF uuid = DocIds[3] THEN 0
  ELSE 1

\* embedder.embedBatch(texts) for chunks from..to-1 (from 0) of a document.
EmbedBatch(uuid, from, to) ==
  [k \in 1..(to - from) |-> Vec(16777217 + 2 * (from + k))]

\* What dt.getRecordContent may give for toIndex[i]: a thrown exception, a
\* record with an error, a content shorter than 50 characters, a content.
ReadOutcomes(k) ==
  IF k <= NumFragile THEN {"throw", "error", "short", "ok"} ELSE {"ok"}
\* What embedder.embedBatch may do for a batch of that document.
EmbedOutcomes(k) == IF k <= NumFragile THEN {"throw", "ok"} ELSE {"ok"}

\* The index an earlier run left on disk: a document since deleted ("d0"),
\* the first listed document up to date, the second one in an older version.
PriorStore ==
  LET s0 == VectorStore(Dims)
      s1 == upsertDocument(s0, "d0", "d0", "t1", NewChunks("d0", 1, "t1"),
                           <<Vec(-7)>>)
      s2 == upsertDocument(s1, DocIds[1], DocIds[1], "t2",
                           NewChunks(DocIds[1], 1, "t2"), <<Vec(1)>>)
  IN upsertDocument(s2, DocIds[2], DocIds[2], "t1",
                    NewChunks(DocIds[2], 2, "t1"), <<Vec(3), Vec(5)>>)
PriorDisk == save(PriorStore, NoDisk)

\* The same with one artifact deleted or damaged since.
Damaged(dk, f, st) == [dk EXCEPT ![f].st = st]
InitDisks ==
  {NoDisk, PriorDisk}
    \cup {Damaged(PriorDisk, f, st) :
            f \in {"meta", "chunks", "vectors"}, st \in {"missing", "corrupt"}}

NoStats == [totalDocuments |-> 0, indexedDocuments |-> 0, totalChunks |-> 0,
            skippedDocuments |-> 0, errors |-> 0]

\* The locals of buildIndex; pc names the call it is waiting for, and
\* database is "" when the option is left out.
BuildIdle ==
  [pc |-> "start", force |-> FALSE, database |-> "", loadRet |-> FALSE,
   allRecords |-> <<>>,
   toIndex |-> <<>>, skipped |-> 0, i |-> 0, indexed |-> 0,
   totalNewChunks |-> 0, errors |-> 0, nchunks |-> 0, bpos |-> 0,
   allVectors |-> <<>>, stats |-> NoStats]

\* History of a run: the disk and the store (after the load) it started
\* from, the documents whose content read was issued, the documents that
\* failed (with the batch offset of the failing embedBatch, -1 for the read,
\* and whether the failure left the store as the attempt found it), the
\* documents counted as indexed, the store at the start of the current
\* attempt, whether the listing failed, the number of embedBatch calls
\* made, and of the run before this one: whether there was one, the
\* listing it got and whether it indexed every document of it.
NoPrior == [ran |-> FALSE, records |-> <<>>, indexedAll |-> FALSE]
NoHist ==
  [disk0 |-> NoDisk, store0 |-> VectorStore(Dims), attempted |-> {},
   failed |-> {}, upserted |-> {}, before |-> VectorStore(Dims),
   listThrew |-> FALSE, embedCalls |-> 0, prior |-> NoPrior]

\* buildIndex up to `await dt.listAllRecords`: the embedder, the store, the
\* load unless forced.
buildStart(force, dk) ==
  LET s0 == VectorStore(Dims)
      ld == IF force THEN [s |-> s0, ret |-> FALSE] ELSE load(s0, dk)
  IN [b |-> [BuildIdle EXCEPT !.pc = "list", !.force = force,
                              !.loadRet = ld.ret],
      s |-> ld.s, dk |-> dk]

\* The statistics buildIndex returns.
Stats(w) ==
  [totalDocuments |-> Len(w.b.allRecords), indexedDocuments |-> w.b.indexed,
   totalChunks |-> totalChunks(w.s), skippedDocuments |-> w.b.skipped,
   errors |-> w.b.errors]

\* After the loop: store.save() and the return of the statistics.
finish(w) ==
  LET dk2 == save(w.s, w.dk)
      s2 == saveCounters(w.s)
      w2 == [w EXCEPT !.s = s2, !.dk = dk2]
  IN [w2 EXCEPT !.b.pc = "done", !.b.stats = Stats(w2)]

\* i++ and the loop test: the next getRecordContent call, or the end.
advance(w) ==
  LET w1 == [w EXCEPT !.b.i = w.b.i + 1]
  IN IF w1.b.i < Len(w1.b.toIndex)
     THEN [w1 EXCEPT !.b.pc = "read"]
     ELSE finish(w1)

\* listAllRecords returned: the filter, the early return, the loop entry.
\* A listing step that takes every listed document, forced or not.
listReturnedNoFilter(w, recs) ==
  LET w1 == [w EXCEPT !.b.allRecords = recs, !.b.toIndex = recs,
                      !.b.skipped = Len(recs) - Len(recs)]
  IN IF Len(recs) = 0
     THEN [w1 EXCEPT !.b.pc = "done", !.b.stats = Stats(w1)]
     ELSE [w1 EXCEPT !.b.pc = "read", !.b.i = 0]

listReturned(w, recs) ==
  LET toIndex == IF w.b.force THEN recs
                 ELSE SelectSeq(recs, LAMBDA r :
                        needsReindex(w.s, r.uuid, r.modificationDate))
      w1 == [w EXCEPT !.b.allRecords = recs, !.b.toIndex = toIndex,
                      !.b.skipped = Len(recs) - Len(toIndex)]
  IN IF Len(toIndex) = 0
     THEN [w1 EXCEPT !.b.pc = "done", !.b.stats = Stats(w1)]
     ELSE [w1 EXCEPT !.b.pc = "read", !.b.i = 0]

\* listAllRecords threw: outside the try, the exception leaves buildIndex.
listThrew(w) == [w EXCEPT !.b.pc = "failed"]

\* The catch block of the loop: errors++, then the next document.
catch(w) == advance([w EXCEPT !.b.errors = w.b.errors + 1])

\* getRecordContent threw.
readThrew(w) == catch(w)

readReturnedPrunes(w, raw) ==
  LET record == w.b.toIndex[w.b.i + 1]
      n == DocChunks(record.uuid)
  IN IF raw # "ok"
     THEN advance([w EXCEPT !.s = removeDocument(w.s, record.uuid)])
     ELSE IF n = 0 THEN advance(w)
     ELSE [w EXCEPT !.b.pc = "embed", !.b.nchunks = n, !.b.bpos = 0,
                    !.b.allVectors = <<>>]

\* getRecordContent returned raw ("error", "short" or "ok"): the two
\* `continue`s, else the first embedBatch call.
readReturned(w, raw) ==
  LET record == w.b.toIndex[w.b.i + 1]
      n == DocChunks(record.uuid)
  IN IF raw # "ok" THEN advance(w)
     ELSE IF n = 0 THEN advance(w)
     ELSE [w EXCEPT !.b.pc = "embed", !.b.nchunks = n, !.b.bpos = 0,
                    !.b.allVectors = <<>>]

\* A failed embedBatch that ends the whole run instead of being counted.
embedThrewAborts(w) == [w EXCEPT !.b.pc = "failed"]

\* embedBatch threw.
embedThrew(w) == catch(w)

\* embedBatch returned, with every batch upserted as soon as it arrives.
embedReturnedEachBatch(w, vectors) ==
  LET record == w.b.toIndex[w.b.i + 1]
      all == w.b.allVectors \o vectors
      b2 == w.b.bpos + EMBED_BATCH_SIZE
      w1 == [w EXCEPT
               !.b.allVectors = all, !.b.bpos = b2,
               !.s = upsertDocument(w.s, record.uuid, record.name,
                                    record.modificationDate,
                                    NewChunks(record.uuid, Len(all),
                                              TextOf(record.modificationDate)),
                                    all)]
  IN IF b2 < w.b.nchunks THEN w1
     ELSE advance([w1 EXCEPT
            !.b.indexed = w.b.indexed + 1,
            !.b.totalNewChunks = w.b.totalNewChunks + w.b.nchunks])

\* A batch loop that has the batch after the next one sent when a batch
\* returns.
embedReturnedTwoAhead(w, vectors) ==
  LET record == w.b.toIndex[w.b.i + 1]
      all == w.b.allVectors \o vectors
      b2 == w.b.bpos + 2 * EMBED_BATCH_SIZE
  IN IF w.b.bpos + EMBED_BATCH_SIZE < w.b.nchunks
     THEN [w EXCEPT !.b.allVectors = all, !.b.bpos = b2]
     ELSE advance([w EXCEPT
            !.b.allVectors = all, !.b.bpos = b2,
            !.s = upsertDocument(w.s, record.uuid, record.name,
                                 record.modificationDate,
                                 NewChunks(record.uuid, w.b.nchunks,
                                           TextOf(record.modificationDate)),
                                 all),
            !.b.indexed = w.b.indexed + 1,
            !.b.totalNewChunks = w.b.totalNewChunks + w.b.nchunks])

\* embedBatch returned `vectors`: the next batch, or upsertDocument, the
\* counters and the next document.
embedReturned(w, vectors) ==
  LET record == w.b.toIndex[w.b.i + 1]
      all == w.b.allVectors \o vectors
      b2 == w.b.bpos + EMBED_BATCH_SIZE
  IN IF b2 < w.b.nchunks
     THEN [w EXCEPT !.b.allVectors = all, !.b.bpos = b2]
     ELSE advance([w EXCEPT
            !.b.allVectors = all, !.b.bpos = b2,
            !.s = upsertDocument(w.s, record.uuid, record.name,
                                 record.modificationDate,
                                 NewChunks(record.uuid, w.b.nchunks,
                                           TextOf(record.modificationDate)),
                                 all),
            !.b.indexed = w.b.indexed + 1,
            !.b.totalNewChunks = w.b.totalNewChunks + w.b.nchunks])

\* ----------------------------------------------------------------- search

\* Scores are fixed-point numbers, Unit standing for 1.0; the raw scores and
\* the vectors of the model are chosen so that every quotient below is exact.
Unit == 6 * 1000 * 1000

\* Math.sqrt on the sums of squares the model's vectors give.
Sqrt(n) == CHOOSE r \in 0..n : r * r <= n /\ (r + 1) * (r + 1) > n

\* The sum of f[1..n].
RECURSIVE Sum(_, _)
Sum(f, n) == IF n = 0 THEN 0 ELSE f[n] + Sum(f, n - 1)

\* cosineSimilarity(query, stored, offset, dims)
cosineSimilarity(query, stored, offset, dims) ==
  LET q == [i \in 1..dims |-> NumAt(query, i - 1)]
      v == [i \in 1..dims |-> F32Get(stored, offset + i - 1)]
      dot == Sum([i \in 1..dims |-> q[i] * v[i]], dims)
      normQ == Sum([i \in 1..dims |-> q[i] * q[i]], dims)
      normS == Sum([i \in 1..dims |-> v[i] * v[i]], dims)
      denom == Sqrt(normQ) * Sqrt(normS)
  IN IF denom = 0 THEN 0 ELSE (dot * Unit) \div denom

\* The elements of an array.
Elems(seq) == {seq[k] : k \in 1..Len(seq)}

\* Array.prototype.sort with the comparator cmp, a function of two
\* elements: stable, elements that compare equal keep their order.
SortBy(seq, cmp) ==
  LET n == Len(seq)
      Pos(i) == 1 + Cardinality({j \in 1..n :
                      \/ cmp[seq[j], seq[i]] < 0
                      \/ cmp[seq[j], seq[i]] = 0 /\ j < i})
  IN [k \in 1..n |-> seq[CHOOSE i \in 1..n : Pos(i) = k]]

\* slice(0, n)
Take(seq, n) == SubSeq(seq, 1, Min(n, Len(seq)))

\* No search call made yet.
NoSearch == [pc |-> "idle", query |-> <<>>, topK |-> 0, results |-> <<>>]

searchAscending(s, queryVector, topK) ==
  IF Len(s.chunks) = 0 THEN <<>>
  ELSE
    LET scores == [i \in 1..Len(s.chunks) |->
                     [index |-> i,
                      score |-> cosineSimilarity(queryVector, s.vectors,
                                   (i - 1) * s.dimensions, s.dimensions)]]
        sorted == SortBy(scores, [a \in Elems(scores), b \in Elems(scores) |->
                                    a.score - b.score])
        top == Take(sorted, topK)
    IN [k \in 1..Len(top) |->
          [uuid |-> s.chunks[top[k].index].uuid,
           text |-> s.chunks[top[k].index].text,
           chunkIndex |-> s.chunks[top[k].index].chunkIndex,
           score |-> top[k].score]]

\* search(queryVector, topK)
search(s, queryVector, topK) ==
  IF Len(s.chunks) = 0 THEN <<>>
  ELSE
    LET scores == [i \in 1..Len(s.chunks) |->
                     [index |-> i,
                      score |-> cosineSimilarity(queryVector, s.vectors,
                                   (i - 1) * s.dimensions, s.dimensions)]]
        sorted == SortBy(scores, [a \in Elems(scores), b \in Elems(scores) |->
                                    b.score - a.score])
        top == Take(sorted, topK)
    IN [k \in 1..Len(top) |->
          [uuid |-> s.chunks[top[k].index].uuid,
           text |-> s.chunks[top[k].index].text,
           chunkIndex |-> s.chunks[top[k].index].chunkIndex,
           score |-> top[k].score]]

\* normalizeKeywordScore(score), normalizeRelatedScore(score): score / 100
\* clipped to [0, 1].
normalizeKeywordScoreUnclipped(score) == (score * Unit) \div 100
normalizeKeywordScore(score) == Min(Unit, Max(0, (score * Unit) \div 100))
normalizeRelatedScore(score) == Min(Unit, Max(0, (score * Unit) \div 100))

\* normalizeSemanticScore(score): (score - 0.4) / 0.6 clipped to [0, 1].
normalizeSemanticScore(score) ==
  Max(0, Min(Unit, ((score - (4 * Unit) \div 10) * 10) \div 6))

\* getStore() that hands out the cached store without looking at the disk.
getStoreCacheFirst(cached, dk) ==
  IF cached # <<>> /\ isReady(cached[1])
  THEN [store |-> cached, cached |-> cached]
  ELSE IF ~indexExists(dk) THEN [store |-> <<>>, cached |-> cached]
  ELSE LET l == load(VectorStore(0), dk)
       IN IF l.ret THEN [store |-> <<l.s>>, cached |-> <<l.s>>]
          ELSE [store |-> <<>>, cached |-> cached]

\* The module variable cachedStore and a returned store are <<>> for null
\* and <<s>> for the store s.
\* getStore(): the store returned and cachedStore afterwards.
getStore(cached, dk) ==
  IF ~indexExists(dk) THEN [store |-> <<>>, cached |-> cached]
  ELSE IF cached # <<>> /\ isReady(cached[1])
  THEN [store |-> cached, cached |-> cached]
  ELSE LET l == load(VectorStore(0), dk)
       IN IF l.ret THEN [store |-> <<l.s>>, cached |-> <<l.s>>]
          ELSE [store |-> <<>>, cached |-> cached]

\* resetStoreCache()
resetStoreCache(cached) == <<>>

\* The /index command once its buildIndex call has settled in the state w:
\* resetStoreCache() if it returned, nothing if it threw.  cachedStore
\* afterwards.
afterBuildIndexKeepsCache(w, cached) == cached
afterBuildIndex(w, cached) ==
  IF w.b.pc = "done" THEN resetStoreCache(cached) ELSE cached

\* History of a session: whether a /index command has returned normally
\* with no getStore call since.
NoSession == [sinceIndex |-> FALSE]

\* The results map, in insertion order: the position of key uuid (0 if
\* absent), and Map.set.
Find(results, uuid) ==
  IF \E k \in 1..Len(results) : results[k].uuid = uuid
  THEN CHOOSE k \in 1..Len(results) : results[k].uuid = uuid
  ELSE 0
MapSet(results, r) ==
  IF Find(results, r.uuid) = 0 THEN Append(results, r)
  ELSE [results EXCEPT ![Find(results, r.uuid)] = r]

\* A HybridResult; name, database and recordType are copied through and
\* left out.  semanticSnippet is <<>> when absent; the chunk texts of the
\* model are shorter than the 200 characters kept.
HybridResult(uuid, score, matchedBy, snippet) ==
  [uuid |-> uuid, score |-> score, matchedBy |-> matchedBy,
   semanticSnippet |-> snippet]

\* The locals of hybridSearch; pc names the call it is waiting for.  Of the
\* options, enableSemantic and enableRelated are FALSE only when set to
\* false, and topK is 0 when left out.
SearchIdle ==
  [pc |-> "idle", topK |-> 0, enableSemantic |-> TRUE, enableRelated |-> TRUE,
   results |-> <<>>, searchPaths |-> <<>>, store |-> <<>>,
   indexAvailable |-> FALSE, keywordResults |-> <<>>, semanticResults |-> <<>>,
   seed |-> "", related |-> <<>>, merged |-> <<>>]

\* The keyword loop: every record sets its entry.
RECURSIVE mergeKeyword(_, _, _)
mergeKeyword(results, rs, k) ==
  IF k > Len(rs) THEN results
  ELSE mergeKeyword(
         MapSet(results, HybridResult(rs[k].uuid,
                            normalizeKeywordScore(rs[k].score),
                            <<"keyword">>, <<>>)),
         rs, k + 1)

\* The semantic loop, from result k on.
RECURSIVE mergeSemantic(_, _, _)
mergeSemantic(results, srs, k) ==
  IF k > Len(srs) THEN results
  ELSE
    LET sr == srs[k]
        normalized == normalizeSemanticScore(sr.score)
        at == Find(results, sr.uuid)
    IN IF normalized < Unit \div 10
       THEN mergeSemantic(results, srs, k + 1)
       ELSE IF at # 0
       THEN mergeSemantic(
              [results EXCEPT
                 ![at].score = Min(Unit, @ + (normalized * 5) \div 10),
                 ![at].matchedBy = Append(@, "semantic"),
                 ![at].semanticSnippet = <<sr.text>>],
              srs, k + 1)
       ELSE mergeSemantic(
              Append(results, HybridResult(sr.uuid, (normalized * 85) \div 100,
                                           <<"semantic">>, <<sr.text>>)),
              srs, k + 1)

\* The related loop, from record k on.
RECURSIVE mergeRelated(_, _, _, _)
mergeRelated(results, seed, rs, k) ==
  IF k > Len(rs) THEN results
  ELSE
    LET r == rs[k]
        normalized == normalizeRelatedScore(r.score)
        at == Find(results, r.uuid)
    IN IF r.uuid = seed THEN mergeRelated(results, seed, rs, k + 1)
       ELSE IF at # 0
       THEN mergeRelated(
              [results EXCEPT
                 ![at].score = Min(Unit, @ + (15 * Unit) \div 100),
                 ![at].matchedBy =
                    IF \E m \in 1..Len(@) : @[m] = "related"
                    THEN @ ELSE Append(@, "related")],
              seed, rs, k + 1)
       ELSE mergeRelated(
              Append(results, HybridResult(r.uuid, (normalized * 6) \div 10,
                                           <<"related">>, <<>>)),
              seed, rs, k + 1)

\* Merge & rank, and the return.
rank(h) ==
  LET sorted == SortBy(h.results,
                  [a \in Elems(h.results), b \in Elems(h.results) |->
                    IF Len(b.matchedBy) - Len(a.matchedBy) # 0
                    THEN Len(b.matchedBy) - Len(a.matchedBy)
                    ELSE b.score - a.score])
  IN [h EXCEPT !.merged = Take(sorted, h.topK), !.pc = "done"]

\* Path 3 up to the getRelatedRecords call, or straight to the ranking.
relatedPath(h) ==
  IF h.enableRelated /\ Len(h.results) > 0
  THEN LET sorted == SortBy(h.results,
                         [a \in Elems(h.results), b \in Elems(h.results) |->
                            b.score - a.score])
       IN [h EXCEPT !.seed = sorted[1].uuid, !.pc = "related"]
  ELSE rank(h)

\* Path 2 up to the embedQuery call, or on to path 3.  x is the pair of the
\* locals and cachedStore.
semanticPath(x, dk) ==
  LET g == IF x.h.enableSemantic THEN getStore(x.cached, dk)
           ELSE [store |-> <<>>, cached |-> x.cached]
      h1 == [x.h EXCEPT !.store = g.store, !.indexAvailable = g.store # <<>>]
  IN [h |-> IF g.store # <<>> THEN [h1 EXCEPT !.pc = "embed"]
            ELSE relatedPath(h1),
      cached |-> g.cached]

\* hybridSearch(query, options) up to the searchRecords call.
searchStart(topK, enableSemantic, enableRelated) ==
  [SearchIdle EXCEPT !.pc = "keyword",
                     !.topK = IF topK = 0 THEN 10 ELSE topK,
                     !.enableSemantic = enableSemantic,
                     !.enableRelated = enableRelated]

\* searchRecords returned an array.
keywordReturned(x, keywordResults, dk) ==
  semanticPath(
    [x EXCEPT !.h.keywordResults = keywordResults,
              !.h.searchPaths = Append(@, "keyword"),
              !.h.results = mergeKeyword(@, keywordResults, 1)],
    dk)

\* A failed searchRecords call that is not caught: hybridSearch throws.
keywordFailedPropagates(x, dk) == [x EXCEPT !.h.pc = "threw"]

\* searchRecords threw, or returned something that is no array.
keywordFailed(x, dk) == semanticPath(x, dk)

\* embedQuery returned the query vector.
embedQueryReturned(h, queryVector) ==
  LET semanticResults == search(h.store[1], queryVector, 15)
  IN relatedPath([h EXCEPT
       !.semanticResults = semanticResults,
       !.searchPaths = Append(@, "semantic"),
       !.results = mergeSemantic(@, semanticResults, 1)])

\* getEmbedder or embedQuery threw.
embedQueryThrew(h) == relatedPath(h)

\* A related loop that does not skip the seed.
relatedReturnedSeedToo(h, related) ==
  rank([h EXCEPT !.related = related,
                 !.searchPaths = Append(@, "related"),
                 !.results = mergeRelated(@, "", related, 1)])

\* getRelatedRecords returned an array.
relatedReturned(h, related) ==
  rank([h EXCEPT !.related = related,
                 !.searchPaths = Append(@, "related"),
                 !.results = mergeRelated(@, h.seed, related, 1)])

\* getRelatedRecords threw, or returned something that is no array.
relatedFailed(h) == rank(h)

\* The locals of semanticSearchOnly: pc is "embed" while embedQuery is
\* awaited, "done" once it has returned {results, indexAvailable}, "threw"
\* once it has rejected.
SemanticIdle ==
  [pc |-> "idle", topK |-> 0, store |-> <<>>, results |-> <<>>,
   indexAvailable |-> FALSE]

\* semanticSearchOnly(query, topK) up to its embedQuery call, or its return
\* when getStore() gives no store: the locals and cachedStore afterwards.
\* topKArg is <<>> when the argument is left out, <<k>> when it is k.
semanticSearchOnly(cached, topKArg, dk) ==
  LET g == getStore(cached, dk)
      o == [SemanticIdle EXCEPT
              !.topK = IF topKArg = <<>> THEN 10 ELSE topKArg[1],
              !.store = g.store]
  IN [o |-> [o EXCEPT !.pc = IF g.store = <<>> THEN "done" ELSE "embed"],
      cached |-> g.cached]

\* embedQuery returned the query vector: store.search and the return; of
\* a result the uuid, the text and the score are kept.
semanticEmbedReturned(o, queryVector) ==
  LET found == search(o.store[1], queryVector, o.topK)
  IN [o EXCEPT !.pc = "done", !.indexAvailable = TRUE,
               !.results = [k \in 1..Len(found) |->
                              [uuid |-> found[k].uuid,
                               text |-> found[k].text,
                               score |-> found[k].score]]]

\* getEmbedder or embedQuery threw: semanticSearchOnly rejects.
semanticEmbedThrew(o) == [o EXCEPT !.pc = "threw"]

\* ----------------------------------------------------------- search inputs

\* A vector of the store's dimensionality with components a, b, 0, ...
Vec2(a, b) == [j \in 1..Dims |-> IF j = 1 THEN a ELSE IF j = 2 THEN b ELSE 0]

\* The index the searches run on: two chunks of d1, one of d2, one of d3
\* with a zero vector.
IndexStore ==
  LET s1 == upsertDocument(VectorStore(Dims), "d1", "d1", "t1",
                           NewChunks("d1", 2, "t1"), <<Vec2(3, 4), Vec2(4, 3)>>)
      s2 == upsertDocument(s1, "d2", "d2", "t1",
                           NewChunks("d2", 1, "t1"), <<Vec2(0, 5)>>)
  IN upsertDocument(s2, "d3", "d3", "t1",
                    NewChunks("d3", 1, "t1"), <<Vec2(0, 0)>>)
IndexDisk == save(IndexStore, NoDisk)
SearchDisks ==
  {NoDisk, IndexDisk}
    \cup {Damaged(IndexDisk, f, st) :
            f \in {"meta", "chunks", "vectors"}, st \in {"missing", "corrupt"}}

\* What embedQuery, searchRecords and getRelatedRecords may return.
QueryVectors == {Vec2(3, 4), Vec2(0, 1), Vec2(0, 0)}
Hit(uuid, score) == [uuid |-> uuid, score |-> score]
KeywordLists ==
  {<<>>, <<Hit("d1", 50)>>, <<Hit("d2", 120), Hit("d4", 40)>>,
   <<Hit("d4", -5), Hit("d4", 60)>>}
RelatedLists ==
  {<<>>, <<Hit("d1", 90), Hit("d2", 50)>>,
   <<Hit("d4", 70), Hit("d5", 30), Hit("d5", 30)>>,
   <<Hit("d2", 130), Hit("d5", -10)>>}
TopKs == {0, 1, 2}

\* ------------------------------------------------------------ store views

\* The vector slice at offset (i-1)*dimensions, for the i-th chunk.
Slice(s, i) ==
  [j \in 1..s.dimensions |-> F32Get(s.vectors, (i - 1) * s.dimensions + (j - 1))]

\* Every chunk with its vector, in store order.
Pairs(s) ==
  [i \in 1..Len(s.chunks) |-> [chunk |-> s.chunks[i], vector |-> Slice(s, i)]]

\* Everything the store holds about document uuid: its chunks and their
\* vectors in order, and its metadata entry.
DocView(s, uuid) ==
  [pairs |-> SelectSeq(Pairs(s), LAMBDA p : p.chunk.uuid = uuid),
   entry |-> IF uuid \in DOMAIN s.meta.documents
             THEN <<s.meta.documents[uuid]>> ELSE <<>>]

\* ------------------------------------------------------------------ chunker

\* Target characters per chunk, overlap between adjacent chunks, shortest
\* chunk kept.
CHUNK_MAX_CHARS == 2000
OVERLAP_CHARS == 400
MIN_CHUNK_CHARS == 100

\* A string is a sequence of runs of characters.  A run has n >= 1
\* characters of one kind c: "x" is text without whitespace that does not
\* end a sentence, "x." such text whose last character is a sentence-ending
\* punctuation mark, " " is spaces and "\n" newlines.  src is the position
\* (from 1) of the run's first character in the document content, 0 for
\* characters the chunker inserts.  The documents of the model have spaces
\* only between sentences or words and newlines only as paragraph breaks.
Run(src, n, c) == [src |-> src, n |-> n, c |-> c]
IsSpace(r) == r.c \in {" ", "\n"}

\* s.length
StrLen(s) == Sum([k \in 1..Len(s) |-> s[k].n], Len(s))

\* The number of characters of s before its run k.
OffsetOf(s, k) == Sum([j \in 1..Len(s) |-> s[j].n], k - 1)

\* s.slice(from, to) for 0 <= from: the characters from .. to - 1 (from 0).
\* A run of kind "x." cut before its end no longer ends a sentence.
StrSlice(s, from, to) ==
  LET cut == [k \in 1..Len(s) |->
                LET off == OffsetOf(s, k)
                    lo == Max(from, off)
                    hi == Min(to, off + s[k].n)
                IN [src |-> IF s[k].src = 0 THEN 0 ELSE s[k].src + (lo - off),
                    n |-> Max(0, hi - lo),
                    c |-> IF s[k].c = "x." /\ hi < off + s[k].n
                          THEN "x" ELSE s[k].c]]
  IN SelectSeq(cut, LAMBDA r : r.n > 0)

\* s.slice(-n)
StrTail(s, n) == StrSlice(s, Max(0, StrLen(s) - n), StrLen(s))

\* s.endsWith("\n")
EndsWithNewline(s) == Len(s) > 0 /\ s[Len(s)].c = "\n"

\* s.trim()
StrTrim(s) ==
  LET keep == {k \in 1..Len(s) : ~IsSpace(s[k])}
  IN IF keep = {} THEN <<>>
     ELSE SubSeq(s, CHOOSE k \in keep : \A j \in keep : k <= j,
                    CHOOSE k \in keep : \A j \in keep : k >= j)

\* s.split(re) where the matches of re are the runs numbered in seps.
Pieces(s, seps) ==
  LET m == Cardinality(seps)
      at == [i \in 0..(m + 1) |->
               IF i = 0 THEN 0
               ELSE IF i = m + 1 THEN Len(s) + 1
               ELSE CHOOSE k \in seps :
                      Cardinality({j \in seps : j < k}) = i - 1]
  IN [i \in 1..(m + 1) |-> SubSeq(s, at[i - 1] + 1, at[i] - 1)]

\* text.split(/\n\s*\n/): a match is a whitespace stretch with two newlines.
SplitParagraphs(text) ==
  Pieces(text, {k \in 1..Len(text) : text[k].c = "\n" /\ text[k].n >= 2})

\* text.split(/(?<=[.!?...\n])\s+/): a match is whitespace that follows a
\* sentence-ending mark or a newline.
SplitSentences(text) ==
  Pieces(text, {k \in 2..Len(text) :
                  IsSpace(text[k]) /\ text[k - 1].c \in {"x.", "\n"}})

\* for (i = 0; i < sent.length; i += CHUNK_MAX_CHARS)
\*   chunks.push(sent.slice(i, i + CHUNK_MAX_CHARS))
HardSplit(sent) ==
  [q \in 1..((StrLen(sent) + CHUNK_MAX_CHARS - 1) \div CHUNK_MAX_CHARS) |->
     StrSlice(sent, (q - 1) * CHUNK_MAX_CHARS, q * CHUNK_MAX_CHARS)]

\* The loop of splitBySentences from sentence k on, and the final flush.
RECURSIVE SentenceLoop(_, _, _, _)
SentenceLoop(sentences, k, current, chunks) ==
  IF k > Len(sentences)
  THEN IF current # <<>> THEN Append(chunks, current) ELSE chunks
  ELSE
    LET sent == sentences[k]
        flushed == IF current # <<>> THEN Append(chunks, current) ELSE chunks
    IN IF StrLen(current) + StrLen(sent) + 1 <= CHUNK_MAX_CHARS
       THEN SentenceLoop(sentences, k + 1,
              current \o (IF current # <<>> THEN <<Run(0, 1, " ")>> ELSE <<>>)
                      \o sent,
              chunks)
       ELSE IF StrLen(sent) > CHUNK_MAX_CHARS
       THEN SentenceLoop(sentences, k + 1, <<>>, flushed \o HardSplit(sent))
       ELSE SentenceLoop(sentences, k + 1, sent, flushed)

\* splitBySentences(text)
splitBySentences(text) == SentenceLoop(SplitSentences(text), 1, <<>>, <<>>)

\* The loop of splitIntoParagraphChunks from paragraph k on, and the final
\* flush.
RECURSIVE ParagraphLoop(_, _, _, _)
ParagraphLoop(paragraphs, k, buffer, chunks) ==
  IF k > Len(paragraphs)
  THEN IF buffer # <<>> THEN Append(chunks, buffer) ELSE chunks
  ELSE
    LET trimmed == StrTrim(paragraphs[k])
        flushed == IF buffer # <<>> THEN Append(chunks, buffer) ELSE chunks
    IN IF trimmed = <<>>
       THEN ParagraphLoop(paragraphs, k + 1, buffer, chunks)
       ELSE IF StrLen(buffer) + StrLen(trimmed) + 2 <= CHUNK_MAX_CHARS
       THEN ParagraphLoop(paragraphs, k + 1,
              buffer \o (IF buffer # <<>> THEN <<Run(0, 2, "\n")>> ELSE <<>>)
                     \o trimmed,
              chunks)
       ELSE IF StrLen(trimmed) > CHUNK_MAX_CHARS
       THEN ParagraphLoop(paragraphs, k + 1, <<>>,
                          flushed \o splitBySentences(trimmed))
       ELSE ParagraphLoop(paragraphs, k + 1, trimmed, flushed)

\* splitIntoParagraphChunks(text)
splitIntoParagraphChunks(text) ==
  ParagraphLoop(SplitParagraphs(text), 1, <<>>, <<>>)

\* applyOverlap(rawChunks)
applyOverlap(rawChunks) ==
  IF Len(rawChunks) <= 1 THEN rawChunks
  ELSE [i \in 1..Len(rawChunks) |->
          IF i = 1 THEN rawChunks[1]
          ELSE
            LET prevTail == StrTail(rawChunks[i - 1], OVERLAP_CHARS)
                separator == IF EndsWithNewline(prevTail) THEN <<>>
                             ELSE <<Run(0, 1, "\n")>>
                combined == prevTail \o separator \o rawChunks[i]
                maxAllowed == CHUNK_MAX_CHARS + OVERLAP_CHARS
            IN IF StrLen(combined) > maxAllowed
               THEN StrSlice(combined, 0, maxAllowed) ELSE combined]

\* chunkDocument(doc): the texts of the chunks returned, in order; the
\* chunk at position i has chunkIndex i - 1.
chunkDocument(content) ==
  LET text == StrTrim(content)
  IN IF StrLen(text) < MIN_CHUNK_CHARS THEN <<>>
     ELSE SelectSeq(applyOverlap(splitIntoParagraphChunks(text)),
                    LAMBDA t : StrLen(t) >= MIN_CHUNK_CHARS)

\* ----------------------------------------------------------- chunker inputs

\* Most paragraphs of a document.
MaxParagraphs == 2

\* A sentence of n characters without whitespace, with or without a
\* sentence-ending mark as its last character.
Sentence(n, dot) == <<Run(0, n, IF dot THEN "x." ELSE "x")>>

\* parts[k], parts[k + 1], ... joined by the run sep.
RECURSIVE Joined(_, _, _)
Joined(parts, sep, k) ==
  IF k > Len(parts) THEN <<>>
  ELSE (IF k > 1 THEN <<sep>> ELSE <<>>) \o parts[k]
         \o Joined(parts, sep, k + 1)

\* The paragraphs of the documents: sentences or words joined by a space.
Paragraphs ==
  {Sentence(60, TRUE), Sentence(150, TRUE), Sentence(1999, TRUE),
   Sentence(2000, FALSE), Sentence(4000, FALSE), Sentence(4001, FALSE),
   Joined(<<Sentence(1500, TRUE), Sentence(1500, TRUE)>>, Run(0, 1, " "), 1),
   Joined(<<Sentence(1200, FALSE), Sentence(1200, TRUE)>>, Run(0, 1, " "), 1)}

\* A content: paragraphs joined by an empty line, every character numbered.
ContentOf(paragraphs) ==
  LET s == Joined(paragraphs, Run(0, 2, "\n"), 1)
  IN [k \in 1..Len(s) |-> [s[k] EXCEPT !.src = OffsetOf(s, k) + 1]]

Contents ==
  {ContentOf(ps) : ps \in UNION {[1..m -> Paragraphs] : m \in 1..MaxParagraphs}}

\* No document read, none chunked.
ChunkIdle == [pc |-> "idle", content |-> <<>>, chunks |-> <<>>]

\* ---------------------------------------------------------------- embedder

\* Retries after the first call of a GeminiEmbedder method.
MAX_RETRIES == 3

\* The characters of the error messages the model lets an API call fail
\* with.  A message is the sequence of its characters, so that
\* String.prototype.includes is a search for a substring.
Msg429 == <<"4", "2", "9">>
MsgQuota == <<"q", "u", "o", "t", "a">>
MsgRate == <<"r", "a", "t", "e">>
MsgOverloaded == <<"o", "v", "e", "r", "l", "o", "a", "d", "e", "d">>
MsgGenerate == <<"g", "e", "n", "e", "r", "a", "t", "e">>
MsgKey == <<"k", "e", "y">>
Msg500 == <<"5", "0", "0">>
ErrMsgs ==
  {Msg429, MsgQuota, MsgRate, MsgOverloaded, MsgGenerate, MsgKey, Msg500}

\* errMsg.includes(pat)
Includes(errMsg, pat) ==
  \E k \in 1..(Len(errMsg) - Len(pat) + 1) :
    SubSeq(errMsg, k, k + Len(pat) - 1) = pat

\* isRateLimited of the catch blocks of GeminiEmbedder
isRateLimited(errMsg) ==
  \/ Includes(errMsg, Msg429)
  \/ Includes(errMsg, MsgQuota)
  \/ Includes(errMsg, MsgRate)
  \/ Includes(errMsg, MsgOverloaded)

\* The locals of an embedBatch / embedQuery call: pc is "idle" before the
\* call, "call" while the API call is awaited, "sleep" while the backoff
\* timer is awaited, "returned" / "threw" after it; delay is the argument
\* of setTimeout, result the value returned, error the message thrown.
EmbedIdle ==
  [pc |-> "idle", provider |-> "gemini", method |-> "embedBatch",
   attempt |-> 0, lastError |-> <<>>, delay |-> 0, result |-> <<>>,
   error |-> <<>>]

\* embedBatch(texts) / embedQuery(text) up to its first API call.
embedStart(provider, method) ==
  [EmbedIdle EXCEPT !.pc = "call", !.provider = provider,
                    !.method = method]

\* What a response holds, as the method returns it: the response lists
\* records [index, embedding].  Gemini: result.embeddings.map(e => e.values)
\* for embedBatch, result.embedding.values for embedQuery.  OpenAI:
\* response.data sorted by index, mapped to the embedding; embedQuery is
\* the first of embedBatch([text]).
ValuesOf(provider, method, resp) ==
  LET inOrder ==
        IF provider = "openai"
        THEN SortBy(resp, [a \in Elems(resp), b \in Elems(resp) |->
                             a.index - b.index])
        ELSE resp
      all == [k \in 1..Len(inOrder) |-> inOrder[k].embedding]
  IN IF method = "embedQuery" THEN all[1] ELSE all

\* The API call of a GeminiEmbedder method resolved.
geminiReturned(e, resp) ==
  [e EXCEPT !.pc = "returned",
            !.result = ValuesOf(e.provider, e.method, resp)]

\* A catch block that waits the same second before every retry.
geminiFailedFixedDelay(e, errMsg) ==
  IF e.attempt < MAX_RETRIES /\ isRateLimited(errMsg)
  THEN [e EXCEPT !.lastError = errMsg, !.pc = "sleep", !.delay = 1000]
  ELSE [e EXCEPT !.lastError = errMsg, !.pc = "threw", !.error = errMsg]

\* A catch block that retries whatever the error is.
geminiFailedRetriesAll(e, errMsg) ==
  IF e.attempt < MAX_RETRIES
  THEN [e EXCEPT !.lastError = errMsg, !.pc = "sleep",
                 !.delay = 1000 * Pow2(e.attempt)]
  ELSE [e EXCEPT !.lastError = errMsg, !.pc = "threw", !.error = errMsg]

\* The API call of a GeminiEmbedder method rejected: the catch block.
geminiFailed(e, errMsg) ==
  IF e.attempt < MAX_RETRIES /\ isRateLimited(errMsg)
  THEN [e EXCEPT !.lastError = errMsg, !.pc = "sleep",
                 !.delay = 1000 * Pow2(e.attempt)]
  ELSE [e EXCEPT !.lastError = errMsg, !.pc = "threw", !.error = errMsg]

\* The backoff timer fired: `continue`, attempt++, the next API call.
timerFired(e) == [e EXCEPT !.pc = "call", !.attempt = e.attempt + 1]

\* client.embeddings.create of an OpenAIEmbedder method resolved.
openaiReturned(e, resp) ==
  [e EXCEPT !.pc = "returned",
            !.result = ValuesOf(e.provider, e.method, resp)]

\* client.embeddings.create rejected: no catch block, the error leaves the
\* method.
openaiFailed(e, errMsg) == [e EXCEPT !.pc = "threw", !.error = errMsg]

\* The responses an API call may resolve with: one record per text, for
\* one text (embedQuery) or two (embedBatch).  The OpenAI response may
\* list the records in any order.
ResponsesOf(provider, method) ==
  LET r(i, a, b) == [index |-> i, embedding |-> Vec2(a, b)]
  IN IF method = "embedQuery"
     THEN {<<r(0, 3, 4)>>, <<r(0, 0, 1)>>}
     ELSE {<<r(0, 3, 4), r(1, 4, 3)>>, <<r(0, 0, 5), r(1, 3, 4)>>}
          \cup (IF provider = "openai"
                THEN {<<r(1, 4, 3), r(0, 3, 4)>>} ELSE {})

\* No API call made, no timer set.
NoEmbedHist == [log |-> <<>>, waits |-> <<>>]

\* --------------------------------------------------------------- agentLoop

\* Retries of one LLM call, the first backoff delay in milliseconds, the
\* status codes that make an error retryable.
MAX_RETRIES_CHAT == 3
RETRY_BASE_DELAY_MS == 2000
RETRYABLE_STATUS_CODES ==
  {Msg429, Msg500, <<"5", "0", "2">>, <<"5", "0", "3">>, <<"5", "0", "4">>}

\* isRetryableError(err), on the message of the error
isRetryableError(msg) ==
  \E code \in RETRYABLE_STATUS_CODES :
    Includes(msg, code) \/ Includes(msg, MsgOverloaded)

\* The texts agentLoop returns when it stops by itself.
LimitText == "[Agent reached maximum iteration limit and stopped.]"
UnexpectedText == "[Agent received an unexpected response and stopped.]"

\* The locals of an agentLoop call and the provider history it appends to.
\* pc: "idle" before the call, "chat" while provider.chat is awaited,
\* "sleep" while the backoff timer is awaited, "tool" while executeTool is
\* awaited for toolCalls[t], "returned" / "threw" after the call.
AgentIdle ==
  [pc |-> "idle", maxIterations |-> 0, iterations |-> 0, attempt |-> 0,
   delay |-> 0, toolCalls |-> <<>>, t |-> 0, toolResultEntries |-> <<>>,
   allToolCalls |-> <<>>, history |-> <<>>, text |-> "", error |-> <<>>]

\* The test of `while (iterations < maxIterations)`: the next chatWithRetry
\* call, or the return at the iteration limit.
loopTest(a) ==
  IF a.iterations < a.maxIterations
  THEN [a EXCEPT !.pc = "chat", !.iterations = a.iterations + 1,
                 !.attempt = 0, !.toolCalls = <<>>, !.t = 0,
                 !.toolResultEntries = <<>>]
  ELSE [a EXCEPT !.pc = "returned", !.text = LimitText]

\* The limit of a configuration that gives none.
DEFAULT_MAX_ITERATIONS == 25

\* config.maxIterations || 25, where 0 stands for every falsy value of the
\* field (0, NaN, undefined).
limitOf(configured) ==
  IF configured = 0 THEN DEFAULT_MAX_ITERATIONS ELSE configured

\* agentLoop(history, provider, config) up to its first await, config
\* given by its maxIterations field.
agentStart(configured) ==
  loopTest([AgentIdle EXCEPT !.maxIterations = limitOf(configured)])

\* provider.pushToolResults(history, toolResultEntries) and `continue`.
pushToolResults(a) ==
  loopTest([a EXCEPT !.history =
              Append(@, [role |-> "tool", entries |-> a.toolResultEntries])])

\* A loop whose tool rounds do not count as iterations.
chatReturnedUncounted(a, response) ==
  IF response.stopReason = "end_turn"
  THEN [a EXCEPT !.pc = "returned", !.text = response.text]
  ELSE IF response.stopReason = "tool_use"
  THEN LET a1 == [a EXCEPT
                    !.history = Append(@, [role |-> "assistant",
                                           entries |-> response.toolCalls]),
                    !.toolCalls = response.toolCalls,
                    !.iterations = a.iterations - 1]
       IN IF Len(response.toolCalls) = 0 THEN pushToolResults(a1)
          ELSE [a1 EXCEPT !.pc = "tool", !.t = 1,
                          !.allToolCalls =
                             Append(@, response.toolCalls[1].name)]
  ELSE [a EXCEPT !.pc = "returned",
                 !.text = IF response.text # "" THEN response.text
                          ELSE UnexpectedText]

\* chatWithRetry returned a response: the return on end_turn, the tool
\* round on tool_use, the return on any other stop reason.
chatReturned(a, response) ==
  IF response.stopReason = "end_turn"
  THEN [a EXCEPT !.pc = "returned", !.text = response.text]
  ELSE IF response.stopReason = "tool_use"
  THEN LET a1 == [a EXCEPT
                    !.history = Append(@, [role |-> "assistant",
                                           entries |-> response.toolCalls]),
                    !.toolCalls = response.toolCalls]
       IN IF Len(response.toolCalls) = 0 THEN pushToolResults(a1)
          ELSE [a1 EXCEPT !.pc = "tool", !.t = 1,
                          !.allToolCalls =
                             Append(@, response.toolCalls[1].name)]
  ELSE [a EXCEPT !.pc = "returned",
                 !.text = IF response.text # "" THEN response.text
                          ELSE UnexpectedText]

\* provider.chat rejected: the catch block of chatWithRetry.  The error
\* it rethrows leaves agentLoop.
chatFailed(a, errMsg) ==
  IF a.attempt < MAX_RETRIES_CHAT /\ isRetryableError(errMsg)
  THEN [a EXCEPT !.pc = "sleep",
                 !.delay = RETRY_BASE_DELAY_MS * Pow2(a.attempt)]
  ELSE [a EXCEPT !.pc = "threw", !.error = errMsg]

\* The backoff timer of chatWithRetry fired: the next attempt.
chatTimerFired(a) == [a EXCEPT !.pc = "chat", !.attempt = a.attempt + 1]

\* JSON.stringify(result)
Stringify(result) == <<"json", result>>

\* The end of one pass of `for (const tc of response.toolCalls)` with the
\* value `result`: the entry, then the next pass up to its executeTool
\* call (its event is pushed to allToolCalls), or the feedback.
toolDone(a, result) ==
  LET tc == a.toolCalls[a.t]
      a1 == [a EXCEPT
               !.toolResultEntries =
                  Append(@, [toolCallId |-> tc.id,
                             output |-> Stringify(result)])]
  IN IF a.t < Len(a.toolCalls)
     THEN [a1 EXCEPT !.t = a.t + 1,
                     !.allToolCalls = Append(@, a.toolCalls[a.t + 1].name)]
     ELSE pushToolResults(a1)

\* executeTool returned a value.
toolReturned(a, value) == toolDone(a, value)

\* executeTool threw: result = { error: e.message }.
toolThrew(a, message) == toolDone(a, [error |-> message])

\* Largest maxIterations the configurations of the model give; 0, the
\* field left out, is one of them too.
MaxIterations == 2

\* The tool round every LLM call of a run under the default limit may ask
\* for: the runs of 25 rounds are followed with one tool call a round.
LongRunCalls == <<[id |-> "c1", name |-> "search"]>>

\* What provider.chat may resolve with.
ToolCall(id, name) == [id |-> id, name |-> name]
Responses ==
  {[stopReason |-> "end_turn", text |-> tx, toolCalls |-> <<>>] :
     tx \in {"", "answer"}}
  \cup {[stopReason |-> "max_tokens", text |-> tx, toolCalls |-> <<>>] :
          tx \in {"", "partial"}}
  \cup {[stopReason |-> "tool_use", text |-> "", toolCalls |-> tcs] :
          tcs \in {<<>>, <<ToolCall("c1", "search")>>,
                   <<ToolCall("c1", "search"), ToolCall("c2", "read")>>}}

\* The messages provider.chat may reject with.
ChatErrMsgs == {Msg429, <<"5", "0", "3">>, MsgOverloaded, MsgKey}

\* History of an agentLoop call: the chatWithRetry calls made, the
\* provider.chat calls of the running one, the tool calls that threw, the
\* response chatWithRetry returned last.
NoResponse == [stopReason |-> "none", text |-> "", toolCalls |-> <<>>]
NoAgentHist ==
  [rounds |-> 0, tries |-> 0, toolThrows |-> 0, response |-> NoResponse]

\* ------------------------------------------------------------------ state

VARIABLES
  store,     \* the VectorStore object in use
  disk,      \* the index directory
  lastOp,    \* history: the last store operation, its arguments and result
  pre,       \* history: the store before the last operation
  given,     \* history: per document, the vectors its last upsert supplied
  build,     \* the locals of the running buildIndex call
  hist,      \* history of the buildIndex call
  cachedStore,  \* the module variable of hybrid-search
  hs,        \* the locals of the running hybridSearch call
  calls,     \* history: how the calls of the running hybridSearch ended
  em,        \* the locals of the running embedBatch / embedQuery call
  emHist,    \* history: the API calls it made and the delays it waited
  ck,        \* a document content and the chunks chunkDocument cut it into
  ag,        \* the locals of the running agentLoop call
  agHist,    \* history of the agentLoop call
  sr,        \* the last VectorStore.search call: arguments and result
  session,   \* history of the interactive session: /index and the cache
  sso        \* the locals of the running semanticSearchOnly call

storeVars == <<store, disk>>
storeHist == <<lastOp, pre, given>>
buildVars == <<build, hist>>
searchVars == <<cachedStore, hs, calls>>
embedVars == <<em, emHist>>
moreVars == <<ck, ag, agHist, sr, session, sso>>
vars ==
  <<store, disk, lastOp, pre, given, build, hist, cachedStore, hs, calls,
    em, emHist, ck, ag, agHist, sr, session, sso>>

\* The parts of the state the store, the builder, the search and the
\* embedder do not touch, before any call.
MoreIdle ==
  /\ ck = ChunkIdle /\ ag = AgentIdle /\ agHist = NoAgentHist
  /\ sr = NoSearch /\ session = NoSession /\ sso = SemanticIdle

\* Per path, how its call (searchRecords, embedQuery, getRelatedRecords)
\* ended in the running search: "none" while not made, "ok", "failed";
\* and whether indexExists() held when the search was called.
NoCalls ==
  [keyword |-> "none", semantic |-> "none", related |-> "none",
   index |-> FALSE]

NoOp == [op |-> "none", uuid |-> "", date |-> "", n |-> 0, ret |-> TRUE]

\* The n vectors an upsert supplies for the chunks of a text: pairwise
\* different.
VecList(text, n) == [k \in 1..n |-> Vec(SeedOf(text) + 2 * (k - 1))]

StoreInit ==
  /\ store = VectorStore(Dims)
  /\ disk = NoDisk
  /\ lastOp = NoOp
  /\ pre = VectorStore(Dims)
  /\ given = [d \in Docs |-> <<>>]
  /\ build = BuildIdle
  /\ hist = NoHist
  /\ cachedStore = <<>>
  /\ hs = SearchIdle
  /\ calls = NoCalls
  /\ em = EmbedIdle
  /\ emHist = NoEmbedHist
  /\ MoreIdle

\* A caller upserts document uuid with n chunks and one vector per chunk.
Upsert(uuid, date, n) ==
  /\ Len(keepIndices(store, uuid)) + n <= MaxTotalChunks
  /\ store' = upsertDocument(store, uuid, uuid, date,
                             NewChunks(uuid, n, TextOf(date)),
                             VecList(TextOf(date), n))
  /\ pre' = store
  /\ lastOp' = [op |-> "upsert", uuid |-> uuid, date |-> date, n |-> n, ret |-> TRUE]
  /\ given' = [given EXCEPT ![uuid] = VecList(TextOf(date), n)]
  /\ UNCHANGED <<disk, buildVars, searchVars, embedVars, moreVars>>

\* A caller removes document uuid.
Remove(uuid) ==
  /\ store' = removeDocument(store, uuid)
  /\ pre' = store
  /\ lastOp' = [op |-> "remove", uuid |-> uuid, date |-> "", n |-> 0, ret |-> TRUE]
  /\ UNCHANGED <<disk, given, buildVars, searchVars, embedVars, moreVars>>

StoreNext ==
  \/ \E uuid \in Docs, date \in Dates, n \in 0..MaxNewChunks :
       Upsert(uuid, date, n)
  \/ \E uuid \in Docs : Remove(uuid)

\* The store-level model: any sequence of upsertDocument and removeDocument.
SpecStore == StoreInit /\ [][StoreNext]_vars

\* ------------------------------------------------------------ search steps

\* The vectors of the search model: unit directions scaled by 5, their
\* opposites, and the zero vector.
QVecs == {Vec2(3, 4), Vec2(4, 3), Vec2(-3, -4), Vec2(0, 0)}

\* A caller upserts document uuid with one vector of QVecs per chunk.
Put(uuid, vecs) ==
  /\ sr.pc = "idle"
  /\ Len(keepIndices(store, uuid)) + Len(vecs) <= MaxTotalChunks
  /\ store' = upsertDocument(store, uuid, uuid, "t1",
                             NewChunks(uuid, Len(vecs), "t1"), vecs)
  /\ sr' = NoSearch
  /\ UNCHANGED <<disk, storeHist, buildVars, searchVars, embedVars,
                 ck, ag, agHist, session, sso>>

\* A caller calls store.search(queryVector, topK).
Search(queryVector, topK) ==
  /\ sr.pc = "idle"
  /\ sr' = [pc |-> "searched", query |-> queryVector, topK |-> topK,
            results |-> search(store, queryVector, topK)]
  /\ UNCHANGED <<store, disk, storeHist, buildVars, searchVars, embedVars,
                 ck, ag, agHist, session, sso>>

\* The caller is done with the result of its search.
SearchDone ==
  /\ sr.pc = "searched"
  /\ sr' = NoSearch
  /\ UNCHANGED <<store, disk, storeHist, buildVars, searchVars, embedVars,
                 ck, ag, agHist, session, sso>>

QueryNext ==
  \/ \E uuid \in Docs :
       \E vecs \in UNION {[1..n -> QVecs] : n \in 1..MaxNewChunks} :
         Put(uuid, vecs)
  \/ \E queryVector \in QVecs, topK \in 0..(MaxTotalChunks + 1) :
       Search(queryVector, topK)
  \/ SearchDone

\* Upserts and searches in any order.
SpecQuery == StoreInit /\ [][QueryNext]_vars

\* ------------------------------------------------------ save and load steps

\* An index directory a run may start from: one document with one chunk.
SeedDisk ==
  save(upsertDocument(VectorStore(Dims), "d2", "d2", "t1",
                      NewChunks("d2", 1, "t1"), VecList("t1", 1)),
       NoDisk)

PersistInit ==
  /\ disk \in {NoDisk, SeedDisk}
  /\ store = VectorStore(Dims)
  /\ lastOp = NoOp
  /\ pre = VectorStore(Dims)
  /\ given = [d \in Docs |-> <<>>]
  /\ build = BuildIdle
  /\ hist = NoHist
  /\ cachedStore = <<>>
  /\ hs = SearchIdle
  /\ calls = NoCalls
  /\ em = EmbedIdle
  /\ emHist = NoEmbedHist
  /\ MoreIdle

\* The store is still being built: nothing was saved in this run.
Building == lastOp.op \in {"none", "load", "upsert", "remove"}

\* store.save()
Save ==
  /\ Building
  /\ disk' = save(store, disk)
  /\ store' = saveCounters(store)
  /\ pre' = store
  /\ lastOp' = [op |-> "save", uuid |-> "", date |-> "", n |-> 0, ret |-> TRUE]
  /\ UNCHANGED <<given, buildVars, searchVars, embedVars, moreVars>>

\* new VectorStore(0).load() takes the place of the store: at the start of
\* a run ("load"), or right after the save ("reload").
Load ==
  /\ lastOp.op \in {"none", "save"}
  /\ LET l == load(VectorStore(0), disk)
     IN /\ store' = l.s
        /\ lastOp' = [op |-> IF lastOp.op = "save" THEN "reload" ELSE "load",
                      uuid |-> "", date |-> "", n |-> 0, ret |-> l.ret]
  /\ pre' = store
  /\ UNCHANGED <<disk, given, buildVars, searchVars, embedVars, moreVars>>

\* The version of a document that the runs of this model index.
VersionOf(uuid) == IF uuid = "d1" THEN "t1" ELSE "t2"

PersistNext ==
  \/ \E uuid \in Docs, n \in 0..MaxNewChunks :
       Building /\ Upsert(uuid, VersionOf(uuid), n)
  \/ \E uuid \in Docs : Building /\ Remove(uuid)
  \/ Save
  \/ Load

\* Building a store, from nothing or from a loaded index, then saving it
\* and loading the files into a fresh store.
SpecPersist == PersistInit /\ [][PersistNext]_vars

\* The process dies inside store.save(), after k of its three writes.
SaveCrashes(k) ==
  /\ Building
  /\ disk' = savePrefix(store, disk, k)
  /\ pre' = store
  /\ lastOp' = [op |-> "crash", uuid |-> "", date |-> "", n |-> k,
                ret |-> FALSE]
  /\ UNCHANGED <<store, given, buildVars, searchVars, embedVars, moreVars>>

\* A new process loads what the crash left: new VectorStore(0).load().
Recover ==
  /\ lastOp.op = "crash"
  /\ LET l == load(VectorStore(0), disk)
     IN /\ store' = l.s
        /\ lastOp' = [lastOp EXCEPT !.op = "recover", !.ret = l.ret]
  /\ pre' = store
  /\ UNCHANGED <<disk, given, buildVars, searchVars, embedVars, moreVars>>

CrashNext ==
  \/ PersistNext
  \/ \E k \in 1..2 : SaveCrashes(k)
  \/ Recover

\* As SpecPersist, with a save that may be cut short and the load after it.
SpecCrash == PersistInit /\ [][CrashNext]_vars

\* ------------------------------------------------------ buildIndex steps

World == [b |-> build, s |-> store, dk |-> disk]
Becomes(w) == build' = w.b /\ store' = w.s /\ disk' = w.dk

\* The document buildIndex is working on, and its number in the listing.
Current == build.toIndex[build.i + 1]

\* The history after a step: a new attempt starts from the store as it is.
Ahead(h) == [h EXCEPT !.before = IF build'.i # build.i THEN store' ELSE @]
\* The record of a failure of the current document at batch offset bpos.
Failure(bpos) ==
  [uuid |-> Current.uuid, bpos |-> bpos,
   kept |-> DocView(store', Current.uuid) = DocView(hist.before, Current.uuid)]
DocNo(uuid) == CHOOSE k \in 1..Len(DocIds) : DocIds[k] = uuid

BuildInit ==
  /\ disk \in InitDisks
  /\ store = VectorStore(Dims)
  /\ build = BuildIdle
  /\ hist = NoHist
  /\ cachedStore = <<>>
  /\ hs = SearchIdle
  /\ calls = NoCalls
  /\ em = EmbedIdle
  /\ emHist = NoEmbedHist
  /\ MoreIdle
  /\ lastOp = NoOp
  /\ pre = VectorStore(Dims)
  /\ given = [d \in Docs |-> <<>>]

\* buildIndex(options) is called, forced or not.
BuildStart(force) ==
  /\ build.pc = "start"
  /\ LET w == buildStart(force, disk)
     IN /\ Becomes(w)
        /\ hist' = [hist EXCEPT !.disk0 = disk, !.store0 = w.s]
  /\ UNCHANGED <<storeHist, searchVars, embedVars, moreVars>>

\* dt.listAllRecords returns recs; a second run gets the listing of the
\* first.
ListReturns(recs) ==
  /\ build.pc = "list"
  /\ hist.prior.ran => recs = hist.prior.records
  /\ Becomes(listReturned(World, recs))
  /\ hist' = [hist EXCEPT !.before = store']
  /\ UNCHANGED <<storeHist, searchVars, embedVars, moreVars>>

ListThrows ==
  /\ build.pc = "list"
  /\ Becomes(listThrew(World))
  /\ hist' = [hist EXCEPT !.listThrew = TRUE]
  /\ UNCHANGED <<storeHist, searchVars, embedVars, moreVars>>

ReadThrows ==
  /\ build.pc = "read"
  /\ "throw" \in ReadOutcomes(DocNo(Current.uuid))
  /\ Becomes(readThrew(World))
  /\ hist' = Ahead([hist EXCEPT
                      !.attempted = @ \cup {Current.uuid},
                      !.failed = @ \cup {Failure(-1)}])
  /\ UNCHANGED <<storeHist, searchVars, embedVars, moreVars>>

ReadReturns(raw) ==
  /\ build.pc = "read"
  /\ raw \in ReadOutcomes(DocNo(Current.uuid)) \ {"throw"}
  /\ Becomes(readReturned(World, raw))
  /\ hist' = Ahead([hist EXCEPT !.attempted = @ \cup {Current.uuid}])
  /\ UNCHANGED <<storeHist, searchVars, embedVars, moreVars>>

EmbedThrows ==
  /\ build.pc = "embed"
  /\ "throw" \in EmbedOutcomes(DocNo(Current.uuid))
  /\ Becomes(embedThrew(World))
  /\ hist' = Ahead([hist EXCEPT !.failed = @ \cup {Failure(build.bpos)},
                                !.embedCalls = @ + 1])
  /\ UNCHANGED <<storeHist, searchVars, embedVars, moreVars>>

EmbedReturns ==
  /\ build.pc = "embed"
  /\ Becomes(embedReturned(World,
       EmbedBatch(Current.uuid, build.bpos,
                  Min(build.bpos + EMBED_BATCH_SIZE, build.nchunks))))
  /\ hist' = Ahead([hist EXCEPT
                      !.upserted = IF build'.indexed > build.indexed
                                   THEN @ \cup {Current.uuid} ELSE @,
                      !.embedCalls = @ + 1])
  /\ UNCHANGED <<storeHist, searchVars, embedVars, moreVars>>

BuildNext ==
  \/ \E force \in BOOLEAN : BuildStart(force)
  \/ ListReturns(Listing)
  \/ ListThrows
  \/ ReadThrows
  \/ \E raw \in {"error", "short", "ok"} : ReadReturns(raw)
  \/ EmbedThrows
  \/ EmbedReturns

\* One buildIndex run over the listing, from any of the initial disks.
SpecBuild == BuildInit /\ [][BuildNext]_vars

\* A listing of two documents, each of which has content to index.
ShortListing == SubSeq(Listing, 1, 2)

\* buildIndex() is called again, not forced, after a run that returned its
\* statistics: new locals, the index directory as that run left it.
BuildAgain ==
  /\ build.pc = "done"
  /\ ~hist.prior.ran
  /\ LET w == buildStart(FALSE, disk)
     IN /\ Becomes(w)
        /\ hist' = [NoHist EXCEPT
                      !.disk0 = disk, !.store0 = w.s,
                      !.prior = [ran |-> TRUE, records |-> build.allRecords,
                                 indexedAll |->
                                   hist.upserted =
                                     {build.allRecords[k].uuid :
                                        k \in 1..Len(build.allRecords)}]]
  /\ UNCHANGED <<storeHist, searchVars, embedVars, moreVars>>

RebuildNext ==
  \/ BuildNext
  \/ ListReturns(ShortListing)
  \/ BuildAgain

\* A buildIndex run over either listing, then a second, non-forced run over
\* the same listing.
SpecRebuild == BuildInit /\ [][RebuildNext]_vars

\* ------------------------------------------------- buildIndex of a database

\* The documents of the repository and the database each is in: the first
\* two listed documents in "Notebook", a third one in "Archive".
Repository ==
  ShortListing \o <<[uuid |-> DocIds[16], name |-> DocIds[16],
                     modificationDate |-> "t2"]>>
DatabaseOf(uuid) == IF uuid = DocIds[16] THEN "Archive" ELSE "Notebook"
DatabaseArgs == {"", "Notebook", "Archive", "Nowhere"}

\* dt.listAllRecords(database): the documents of that database, of every
\* database if none is named.
listAllRecords(database) ==
  SelectSeq(Repository,
            LAMBDA r : database = "" \/ DatabaseOf(r.uuid) = database)

\* The index a run over all databases left: the first document up to
\* date, the second in an older version, the Archive document up to date.
ScopedStore ==
  LET s0 == VectorStore(Dims)
      s1 == upsertDocument(s0, DocIds[1], DocIds[1], "t2",
                           NewChunks(DocIds[1], 1, "t2"), <<Vec(1)>>)
      s2 == upsertDocument(s1, DocIds[16], DocIds[16], "t2",
                           NewChunks(DocIds[16], 1, "t2"), <<Vec(-7)>>)
  IN upsertDocument(s2, DocIds[2], DocIds[2], "t1",
                    NewChunks(DocIds[2], 2, "t1"), <<Vec(3), Vec(5)>>)
ScopedDisk == save(ScopedStore, NoDisk)

ScopedInit ==
  /\ disk = ScopedDisk
  /\ store = VectorStore(Dims)
  /\ build = BuildIdle
  /\ hist = NoHist
  /\ cachedStore = <<>>
  /\ hs = SearchIdle
  /\ calls = NoCalls
  /\ em = EmbedIdle
  /\ emHist = NoEmbedHist
  /\ MoreIdle
  /\ lastOp = NoOp
  /\ pre = VectorStore(Dims)
  /\ given = [d \in Docs |-> <<>>]

\* buildIndex({database, force}) is called.
BuildStartScoped(database, force) ==
  /\ build.pc = "start"
  /\ LET w == buildStart(force, disk)
     IN /\ Becomes([w EXCEPT !.b.database = database])
        /\ hist' = [hist EXCEPT !.disk0 = disk, !.store0 = w.s]
  /\ UNCHANGED <<storeHist, searchVars, embedVars, moreVars>>

ScopedNext ==
  \/ \E database \in DatabaseArgs, force \in BOOLEAN :
       BuildStartScoped(database, force)
  \/ ListReturns(listAllRecords(build.database))
  \/ ListThrows
  \/ ReadThrows
  \/ \E raw \in {"error", "short", "ok"} : ReadReturns(raw)
  \/ EmbedThrows
  \/ EmbedReturns

\* One buildIndex run, of one database or of all, forced or not, over the
\* index of an earlier run.
SpecScoped == ScopedInit /\ [][ScopedNext]_vars

\* ------------------------------------------ buildIndex after a model change

\* An index an earlier run saved with an embedding model of n dimensions:
\* the second document in an older version, one chunk.
ModelDisk(n) ==
  save(upsertDocument(VectorStore(n), DocIds[2], DocIds[2], "t1",
                      NewChunks(DocIds[2], 1, "t1"),
                      <<[j \in 1..n |-> j]>>),
       NoDisk)

\* The index directory was written with the current model, with a model
\* of one dimension more, or with a model of one dimension less.
SwitchInit ==
  /\ disk \in {ModelDisk(Dims), ModelDisk(Dims + 1), ModelDisk(Dims - 1)}
  /\ store = VectorStore(Dims)
  /\ build = BuildIdle
  /\ hist = NoHist
  /\ cachedStore = <<>>
  /\ hs = SearchIdle
  /\ calls = NoCalls
  /\ em = EmbedIdle
  /\ emHist = NoEmbedHist
  /\ MoreIdle
  /\ lastOp = NoOp
  /\ pre = VectorStore(Dims)
  /\ given = [d \in Docs |-> <<>>]

\* One buildIndex run over an index of the current or of another model.
SpecSwitch == SwitchInit /\ [][ScopedNext]_vars

\* ---------------------------------------------------- hybridSearch steps

SearchInit ==
  /\ disk \in SearchDisks
  /\ cachedStore = <<>>
  /\ hs = SearchIdle
  /\ calls = NoCalls
  /\ em = EmbedIdle
  /\ emHist = NoEmbedHist
  /\ MoreIdle
  /\ store = VectorStore(Dims)
  /\ build = BuildIdle
  /\ hist = NoHist
  /\ lastOp = NoOp
  /\ pre = VectorStore(Dims)
  /\ given = [d \in Docs |-> <<>>]

Rest == <<store, disk, storeHist, buildVars, embedVars, moreVars>>
Both == [h |-> hs, cached |-> cachedStore]
BothBecome(x) == hs' = x.h /\ cachedStore' = x.cached

\* hybridSearch(query, options) is called; the call before it has returned.
SearchStart(topK, enableSemantic, enableRelated) ==
  /\ hs.pc \in {"idle", "done"}
  /\ sso.pc = "idle"
  /\ hs' = searchStart(topK, enableSemantic, enableRelated)
  /\ calls' = [NoCalls EXCEPT !.index = indexExists(disk)]
  /\ UNCHANGED <<cachedStore, Rest>>

KeywordReturns(keywordResults) ==
  /\ hs.pc = "keyword"
  /\ BothBecome(keywordReturned(Both, keywordResults, disk))
  /\ calls' = [calls EXCEPT !.keyword = "ok"]
  /\ UNCHANGED Rest

KeywordFails ==
  /\ hs.pc = "keyword"
  /\ BothBecome(keywordFailed(Both, disk))
  /\ calls' = [calls EXCEPT !.keyword = "failed"]
  /\ UNCHANGED Rest

EmbedQueryReturns(queryVector) ==
  /\ hs.pc = "embed"
  /\ hs' = embedQueryReturned(hs, queryVector)
  /\ calls' = [calls EXCEPT !.semantic = "ok"]
  /\ UNCHANGED <<cachedStore, Rest>>

EmbedQueryThrows ==
  /\ hs.pc = "embed"
  /\ hs' = embedQueryThrew(hs)
  /\ calls' = [calls EXCEPT !.semantic = "failed"]
  /\ UNCHANGED <<cachedStore, Rest>>

RelatedReturns(related) ==
  /\ hs.pc = "related"
  /\ hs' = relatedReturned(hs, related)
  /\ calls' = [calls EXCEPT !.related = "ok"]
  /\ UNCHANGED <<cachedStore, Rest>>

RelatedFails ==
  /\ hs.pc = "related"
  /\ hs' = relatedFailed(hs)
  /\ calls' = [calls EXCEPT !.related = "failed"]
  /\ UNCHANGED <<cachedStore, Rest>>

\* resetStoreCache() is called between two searches.
ResetStoreCache ==
  /\ hs.pc \in {"idle", "done"}
  /\ sso.pc = "idle"
  /\ cachedStore # <<>>
  /\ cachedStore' = resetStoreCache(cachedStore)
  /\ UNCHANGED <<hs, calls, Rest>>

\* The index directory is deleted between two searches.
DeleteIndex ==
  /\ hs.pc \in {"idle", "done"}
  /\ sso.pc = "idle"
  /\ disk # NoDisk
  /\ disk' = NoDisk
  /\ UNCHANGED <<store, storeHist, buildVars, searchVars, embedVars, moreVars>>

\* The semantic_search tool: semanticSearchOnly(query, topK) is called,
\* no search or /index command running; its getStore() call is made.
SemanticOnlyStart(topKArg) ==
  /\ hs.pc \in {"idle", "done"}
  /\ build.pc \in {"start", "done", "failed"}
  /\ sso.pc = "idle"
  /\ LET x == semanticSearchOnly(cachedStore, topKArg, disk)
     IN sso' = x.o /\ cachedStore' = x.cached
  /\ session' = [session EXCEPT !.sinceIndex = FALSE]
  /\ UNCHANGED <<store, disk, storeHist, buildVars, hs, calls, embedVars,
                 ck, ag, agHist, sr>>

SemanticOnlyEmbedReturns(queryVector) ==
  /\ sso.pc = "embed"
  /\ sso' = semanticEmbedReturned(sso, queryVector)
  /\ UNCHANGED <<store, disk, storeHist, buildVars, searchVars, embedVars,
                 ck, ag, agHist, sr, session>>

SemanticOnlyEmbedThrows ==
  /\ sso.pc = "embed"
  /\ sso' = semanticEmbedThrew(sso)
  /\ UNCHANGED <<store, disk, storeHist, buildVars, searchVars, embedVars,
                 ck, ag, agHist, sr, session>>

\* The tool has handed the outcome of semanticSearchOnly to its caller.
SemanticOnlyDone ==
  /\ sso.pc \in {"done", "threw"}
  /\ sso' = SemanticIdle
  /\ UNCHANGED <<store, disk, storeHist, buildVars, searchVars, embedVars,
                 ck, ag, agHist, sr, session>>

SearchNext ==
  \/ \E topK \in TopKs, enableSemantic \in BOOLEAN, enableRelated \in BOOLEAN :
       SearchStart(topK, enableSemantic, enableRelated)
  \/ \E topKArg \in {<<>>, <<0>>, <<2>>} : SemanticOnlyStart(topKArg)
  \/ \E queryVector \in QueryVectors : SemanticOnlyEmbedReturns(queryVector)
  \/ SemanticOnlyEmbedThrows
  \/ SemanticOnlyDone
  \/ \E keywordResults \in KeywordLists : KeywordReturns(keywordResults)
  \/ KeywordFails
  \/ \E queryVector \in QueryVectors : EmbedQueryReturns(queryVector)
  \/ EmbedQueryThrows
  \/ \E related \in RelatedLists : RelatedReturns(related)
  \/ RelatedFails
  \/ ResetStoreCache
  \/ DeleteIndex

\* Searches one after the other, on any of the index directories.
SpecSearch == SearchInit /\ [][SearchNext]_vars

\* ------------------------------------------------- the interactive session

\* The session handles one input at a time: a question, whose tool calls
\* reach hybridSearch, or the /index command.
SessionInit ==
  /\ disk \in {NoDisk, ScopedDisk}
  /\ store = VectorStore(Dims)
  /\ build = BuildIdle
  /\ hist = NoHist
  /\ cachedStore = <<>>
  /\ hs = SearchIdle
  /\ calls = NoCalls
  /\ em = EmbedIdle
  /\ emHist = NoEmbedHist
  /\ MoreIdle
  /\ lastOp = NoOp
  /\ pre = VectorStore(Dims)
  /\ given = [d \in Docs |-> <<>>]

\* No command is being handled.
Prompt ==
  /\ hs.pc \in {"idle", "done"}
  /\ sso.pc = "idle"
  /\ build.pc \in {"start", "done", "failed"}

\* hybridSearch(query, {enableSemantic, enableRelated: false}) is called.
SessionSearch(enableSemantic) ==
  /\ Prompt
  /\ hs' = searchStart(0, enableSemantic, FALSE)
  /\ calls' = [NoCalls EXCEPT !.index = indexExists(disk)]
  /\ UNCHANGED <<cachedStore, Rest>>

\* searchRecords settles and getStore() is called if semantic search is
\* enabled.
SessionSeen == [session EXCEPT !.sinceIndex = @ /\ ~hs.enableSemantic]
SessionKeywordReturns(keywordResults) ==
  /\ hs.pc = "keyword"
  /\ BothBecome(keywordReturned(Both, keywordResults, disk))
  /\ calls' = [calls EXCEPT !.keyword = "ok"]
  /\ session' = SessionSeen
  /\ UNCHANGED <<store, disk, storeHist, buildVars, embedVars, ck, ag, agHist,
                 sr, sso>>

SessionKeywordFails ==
  /\ hs.pc = "keyword"
  /\ BothBecome(keywordFailed(Both, disk))
  /\ calls' = [calls EXCEPT !.keyword = "failed"]
  /\ session' = SessionSeen
  /\ UNCHANGED <<store, disk, storeHist, buildVars, embedVars, ck, ag, agHist,
                 sr, sso>>

\* /index or /index --force: buildIndex is called; the search before it
\* has returned.
IndexStart(force) ==
  /\ Prompt
  /\ LET w == buildStart(force, disk)
     IN /\ Becomes(w)
        /\ hist' = [NoHist EXCEPT !.disk0 = disk, !.store0 = w.s]
  /\ hs' = SearchIdle
  /\ calls' = NoCalls
  /\ UNCHANGED <<cachedStore, storeHist, embedVars, moreVars>>

\* A call buildIndex awaited settles and takes the run to w; if that ends
\* the run, the /index command goes on to its end.
IndexStep(w) ==
  /\ Becomes(w)
  /\ cachedStore' = afterBuildIndex(w, cachedStore)
  /\ session' = IF w.b.pc = "done" THEN [sinceIndex |-> TRUE] ELSE session
  /\ UNCHANGED <<hs, calls, hist, storeHist, embedVars, ck, ag, agHist, sr,
                 sso>>

IndexListReturns ==
  build.pc = "list" /\ IndexStep(listReturned(World, listAllRecords("")))
IndexListThrows ==
  build.pc = "list" /\ IndexStep(listThrew(World))
IndexReadThrows ==
  /\ build.pc = "read"
  /\ "throw" \in ReadOutcomes(DocNo(Current.uuid))
  /\ IndexStep(readThrew(World))
IndexReadReturns(raw) ==
  /\ build.pc = "read"
  /\ raw \in ReadOutcomes(DocNo(Current.uuid)) \ {"throw"}
  /\ IndexStep(readReturned(World, raw))
IndexEmbedThrows ==
  /\ build.pc = "embed"
  /\ "throw" \in EmbedOutcomes(DocNo(Current.uuid))
  /\ IndexStep(embedThrew(World))
IndexEmbedReturns ==
  /\ build.pc = "embed"
  /\ IndexStep(embedReturned(World,
       EmbedBatch(Current.uuid, build.bpos,
                  Min(build.bpos + EMBED_BATCH_SIZE, build.nchunks))))

\* Between two commands the index directory is replaced from outside the
\* session: another process built an index, or a copy was restored.
IndexReplaced ==
  /\ Prompt
  /\ disk # ScopedDisk
  /\ disk' = ScopedDisk
  /\ UNCHANGED <<store, storeHist, buildVars, searchVars, embedVars, moreVars>>

SessionNext ==
  \/ \E enableSemantic \in BOOLEAN : SessionSearch(enableSemantic)
  \/ \E keywordResults \in {<<>>, <<Hit("d1", 50)>>} :
       SessionKeywordReturns(keywordResults)
  \/ SessionKeywordFails
  \/ EmbedQueryThrows
  \/ \E topKArg \in {<<>>, <<2>>} : SemanticOnlyStart(topKArg)
  \/ SemanticOnlyEmbedThrows
  \/ SemanticOnlyDone
  \/ \E force \in BOOLEAN : IndexStart(force)
  \/ IndexListReturns
  \/ IndexListThrows
  \/ IndexReadThrows
  \/ \E raw \in {"error", "short", "ok"} : IndexReadReturns(raw)
  \/ IndexEmbedThrows
  \/ IndexEmbedReturns
  \/ DeleteIndex
  \/ IndexReplaced

\* Searches, semantic_search tool calls and /index commands one after the
\* other; the embedQuery call of a search fails (the scoring of a search
\* is in SpecSearch).
SpecSession == SessionInit /\ [][SessionNext]_vars

\* ------------------------------------------------------------ embedder steps

EmbedInit ==
  /\ em = EmbedIdle
  /\ emHist = NoEmbedHist
  /\ MoreIdle
  /\ store = VectorStore(Dims)
  /\ disk = NoDisk
  /\ lastOp = NoOp
  /\ pre = VectorStore(Dims)
  /\ given = [d \in Docs |-> <<>>]
  /\ build = BuildIdle
  /\ hist = NoHist
  /\ cachedStore = <<>>
  /\ hs = SearchIdle
  /\ calls = NoCalls

EmbedRest == <<store, disk, storeHist, buildVars, searchVars, moreVars>>

\* A caller calls embedBatch or embedQuery of the embedder of a provider.
EmbedStart(provider, method) ==
  /\ em.pc \in {"idle", "returned", "threw"}
  /\ em' = embedStart(provider, method)
  /\ emHist' = NoEmbedHist
  /\ UNCHANGED EmbedRest

\* The awaited API call resolves with a response.
ApiReturns(resp) ==
  /\ em.pc = "call"
  /\ em' = IF em.provider = "gemini" THEN geminiReturned(em, resp)
           ELSE openaiReturned(em, resp)
  /\ emHist' = [emHist EXCEPT !.log = Append(@, [ok |-> TRUE, resp |-> resp,
                                                 errMsg |-> <<>>])]
  /\ UNCHANGED EmbedRest

\* The awaited API call rejects with an error of message errMsg.
ApiFails(errMsg) ==
  /\ em.pc = "call"
  /\ em' = IF em.provider = "gemini" THEN geminiFailed(em, errMsg)
           ELSE openaiFailed(em, errMsg)
  /\ emHist' = [emHist EXCEPT !.log = Append(@, [ok |-> FALSE, resp |-> <<>>,
                                                 errMsg |-> errMsg])]
  /\ UNCHANGED EmbedRest

\* The awaited setTimeout(delay) resolves.
TimerFires ==
  /\ em.pc = "sleep"
  /\ em' = timerFired(em)
  /\ emHist' = [emHist EXCEPT !.waits = Append(@, em.delay)]
  /\ UNCHANGED EmbedRest

EmbedNext ==
  \/ \E provider \in {"gemini", "openai"},
        method \in {"embedBatch", "embedQuery"} : EmbedStart(provider, method)
  \/ \E resp \in ResponsesOf(em.provider, em.method) : ApiReturns(resp)
  \/ \E errMsg \in ErrMsgs : ApiFails(errMsg)
  \/ TimerFires

\* Embedding calls one after the other, with either provider.
SpecEmbed == EmbedInit /\ [][EmbedNext]_vars

\* ------------------------------------------------- store-level properties

\* The vector the last upsert of chunk c's document supplied with c.
GivenFor(c) == given[c.uuid][c.chunkIndex + 1]

\* The document ids occurring in a chunk list, and a document's chunk count.
ChunkDocs(s) == {s.chunks[i].uuid : i \in 1..Len(s.chunks)}
CountOf(s, uuid) == Cardinality({i \in 1..Len(s.chunks) : s.chunks[i].uuid = uuid})

\* The chunks of document uuid, in store order.
OwnChunks(s, uuid) == SelectSeq(s.chunks, LAMBDA c : c.uuid = uuid)

\* The chunks of every document but uuid, each with its vector, in store order.
Others(s, uuid) == SelectSeq(Pairs(s), LAMBDA p : p.chunk.uuid # uuid)

\* The loops of removeDocument and upsertDocument, run step by step on the
\* store before the last operation, leave the arrays the cell-by-cell
\* definitions give.
LoopsAgree ==
  \A u \in Docs :
    LET keep == keepIndices(pre, u)
        a == Subarray(Compact(pre.vectors, keep, pre.dimensions), pre.vectors.cap)
        b == Subarray(CompactLoop(pre.vectors, keep, 1, pre.dimensions), pre.vectors.cap)
        g == Grow(pre.vectors, pre.vectorsUsed, pre.vectorsUsed + Len(given[u]) * pre.dimensions)
        c == Subarray(WriteVectors(g, pre.vectorsUsed, given[u], pre.dimensions), g.cap)
        d == Subarray(WriteLoop(g, pre.vectorsUsed, given[u], 0, 0, pre.dimensions), g.cap)
    IN a = b /\ c = d

\* C1 as claimed: the used length is chunks.length * dimensions and slice i
\* holds exactly the vector supplied with chunks[i].
C1_SliceHoldsSuppliedVector ==
  /\ store.vectorsUsed = Len(store.chunks) * store.dimensions
  /\ \A i \in 1..Len(store.chunks) : Slice(store, i) = GivenFor(store.chunks[i])

\* C1 amended: the used length is chunks.length * dimensions and slice i
\* holds the float32 rounding (Math.fround, component by component) of the
\* vector supplied with chunks[i].
C1_SliceHoldsRoundedVector ==
  /\ store.vectorsUsed = Len(store.chunks) * store.dimensions
  /\ \A i \in 1..Len(store.chunks) :
       Slice(store, i) = FroundVec(GivenFor(store.chunks[i]))

\* C1 witness: a removal has just compacted the buffer (the first chunk went,
\* a later one moved to the front) and the surviving vector was rounded.
C1_Witness ==
  /\ lastOp.op = "remove"
  /\ Len(pre.chunks) >= 2
  /\ pre.chunks[1].uuid = lastOp.uuid
  /\ Len(store.chunks) >= 1
  /\ GivenFor(store.chunks[1]) # FroundVec(GivenFor(store.chunks[1]))

\* C2 as claimed: the keys of meta.documents are the document ids occurring
\* in the chunk list, and each chunkCount is the number of chunks of that id.
C2_MetaKeysMatchChunks ==
  /\ DOMAIN store.meta.documents = ChunkDocs(store)
  /\ \A u \in DOMAIN store.meta.documents :
       store.meta.documents[u].chunkCount = CountOf(store, u)

\* C8: after upsertDocument(d, ...) the chunks of d are exactly the supplied
\* ones, the chunks and vectors of the other documents are unchanged and in
\* their previous order, and repeating the call with the same inputs leaves
\* totalChunks and the used vector length as they are.
C8_UpsertIsFullReplace ==
  lastOp.op = "upsert" =>
    LET d == lastOp.uuid
        supplied == NewChunks(d, lastOp.n, TextOf(lastOp.date))
        again == upsertDocument(store, d, d, lastOp.date, supplied, given[d])
    IN /\ OwnChunks(store, d) = supplied
       /\ Others(store, d) = Others(pre, d)
       /\ totalChunks(again) = totalChunks(store)
       /\ again.vectorsUsed = store.vectorsUsed

\* C8 witness: an upsert replaced chunks of an older version of d that stood
\* in front of another document's chunks.
C8_Witness ==
  /\ lastOp.op = "upsert"
  /\ lastOp.n >= 1
  /\ Len(pre.chunks) >= 2
  /\ pre.chunks[1].uuid = lastOp.uuid
  /\ pre.chunks[1].text # TextOf(lastOp.date)
  /\ pre.chunks[Len(pre.chunks)].uuid # lastOp.uuid

\* C9 as claimed: removeDocument(d) deletes every chunk of d, keeps the other
\* chunks and vectors in order, shrinks totalChunks by k and the used length
\* by k*dimensions, and leaves meta.documents without an entry for d.
C9_RemoveDeletesDocument ==
  lastOp.op = "remove" =>
    LET d == lastOp.uuid
        k == CountOf(pre, d)
    IN /\ OwnChunks(store, d) = <<>>
       /\ Others(store, d) = Others(pre, d)
       /\ totalChunks(store) = totalChunks(pre) - k
       /\ store.vectorsUsed = pre.vectorsUsed - k * pre.dimensions
       /\ d \notin DOMAIN store.meta.documents

\* C10 as claimed: needsReindex(id, t) is true exactly when id is untracked or
\* tracked with another date; it is false right after upsertDocument(id, _, t),
\* true for every other date, and true after removeDocument(id).
C10_NeedsReindex ==
  /\ \A u \in Docs, t \in Dates :
       needsReindex(store, u, t) <=>
         (u \notin DOMAIN store.meta.documents
            \/ store.meta.documents[u].modificationDate # t)
  /\ lastOp.op = "upsert" =>
       \A t \in Dates : needsReindex(store, lastOp.uuid, t) <=> (t # lastOp.date)
  /\ lastOp.op = "remove" =>
       \A t \in Dates : needsReindex(store, lastOp.uuid, t)

\* -------------------------------------------------- buildIndex properties

AllDocIds == {"d0"} \cup {DocIds[k] : k \in 1..Len(DocIds)}
Uuids(recs) == {recs[k].uuid : k \in 1..Len(recs)}
InLoop == build.pc \in {"read", "embed"}
\* The run ended by the save after the loop.
Saved == build.pc = "done" /\ Len(build.toIndex) > 0
\* The store the next run would load.
NextLoaded == load(VectorStore(Dims), disk).s

\* C4 as claimed: with an artifact missing or unreadable load() returns
\* false, and after a load that returned false the store is empty
\* (totalChunks 0, needsReindex true for every id and date), so that the
\* non-forced run indexes every listed document.
C4_FailedLoadStartsEmpty ==
  (build.pc # "start" /\ ~build.force) =>
    /\ (\E f \in {"meta", "chunks", "vectors"} : hist.disk0[f].st # "ok")
         => ~build.loadRet
    /\ (~build.loadRet /\ build.pc = "list") =>
         /\ totalChunks(store) = 0
         /\ \A u \in AllDocIds, t \in Dates : needsReindex(store, u, t)
    /\ (~build.loadRet /\ build.pc \in {"read", "embed", "done"}) =>
         build.toIndex = build.allRecords

\* C5: every read or embed failure of a document is counted once in errors
\* and never ends the run; every document of the to-index set is attempted
\* in turn; the run can always go on until it has saved and returned the
\* statistics.
C5_OneFailureNeverAborts ==
  /\ build.errors = Cardinality(hist.failed)
  /\ build.pc = "failed" => hist.listThrew
  /\ build.pc = "read" =>
       hist.attempted = {build.toIndex[k].uuid : k \in 1..build.i}
  /\ build.pc = "embed" =>
       hist.attempted = {build.toIndex[k].uuid : k \in 1..(build.i + 1)}
  /\ build.pc = "done" => hist.attempted = Uuids(build.toIndex)
  /\ InLoop => build.i < Len(build.toIndex)
  /\ Saved =>
       /\ disk = save(store, hist.disk0)
       /\ build.stats = Stats(World)
       /\ build.stats.errors = Cardinality(hist.failed)
       /\ build.stats.indexedDocuments = Cardinality(hist.upserted)

\* C5 witness: a run in which every fragile document failed, one of them in
\* its second batch, ended with the later documents indexed and saved.
C5_Witness ==
  /\ Saved
  /\ build.errors = NumFragile
  /\ \E f \in hist.failed : f.bpos = EMBED_BATCH_SIZE
  /\ build.indexed = NumListed - NumFragile
  /\ DocIds[NumListed] \in DOMAIN disk.meta.val.documents

\* The store holds as many vector cells as its chunks need.
Aligned(s) == s.vectorsUsed = Len(s.chunks) * s.dimensions

\* C6: while a document is being read and embedded the store does not
\* change; a failure leaves the document's chunks, vectors and metadata
\* entry as the attempt found them, and to the end of the run its chunks and
\* entry (and, in a store that loaded whole, its vectors) stay what they
\* were, so that it needs reindexing now and in the store the next run
\* loads; a document the run changed is there with its complete chunk set.
C6_ReindexAllOrNothing ==
  /\ InLoop => store = hist.before
  /\ \A f \in hist.failed :
       /\ f.kept
       /\ OwnChunks(store, f.uuid) = OwnChunks(hist.store0, f.uuid)
       /\ DocView(store, f.uuid).entry = DocView(hist.store0, f.uuid).entry
       /\ Aligned(hist.store0) =>
            DocView(store, f.uuid) = DocView(hist.store0, f.uuid)
       /\ needsReindex(store, f.uuid, "t2")
       /\ Saved => needsReindex(NextLoaded, f.uuid, "t2")
  /\ \A k \in 1..NumListed :
       LET d == DocIds[k]
       IN \/ /\ OwnChunks(store, d) = OwnChunks(hist.store0, d)
             /\ DocView(store, d).entry = DocView(hist.store0, d).entry
          \/ /\ OwnChunks(store, d) = NewChunks(d, DocChunks(d), TextOf("t2"))
             /\ store.meta.documents[d].chunkCount = DocChunks(d)
             /\ store.meta.documents[d].modificationDate = "t2"

\* C6 witness: the second batch of a document failed whose older version
\* was in the loaded index, and the run has ended.
C6_Witness ==
  /\ Saved
  /\ \E f \in hist.failed :
       /\ f.bpos = EMBED_BATCH_SIZE
       /\ CountOf(hist.store0, f.uuid) > 0
       /\ Aligned(hist.store0)
       /\ DocView(store, f.uuid) = DocView(hist.store0, f.uuid)

\* The documents indexed in this run whose new version is not on disk.
OnDisk(uuid) ==
  /\ disk.meta.st = "ok"
  /\ uuid \in DOMAIN disk.meta.val.documents
  /\ disk.meta.val.documents[uuid].modificationDate = "t2"
  /\ disk.chunks.st = "ok"
  /\ \E k \in 1..Len(disk.chunks.val) :
       disk.chunks.val[k].uuid = uuid /\ disk.chunks.val[k].text = TextOf("t2")
Unsaved == {u \in hist.upserted : ~OnDisk(u)}

\* C7: the store is persisted every N indexed documents, so at no point
\* of a run more than N indexed documents are missing on disk
\* (N = PROGRESS_INTERVAL, the only every-N-documents period of buildIndex).
\* buildIndex has no checkpoint: this fails once N + 1 documents are
\* indexed and the loop still runs.
C7_CheckpointEveryN == Cardinality(Unsaved) <= PROGRESS_INTERVAL

\* What buildIndex does: it writes the index directory only in the save
\* after the loop; until then the disk is as the run found it, whatever
\* number of documents has been indexed, and after it the disk holds the
\* whole store.
SavedOnlyAfterLoop ==
  /\ build.pc \in {"list", "read", "embed", "failed"} => disk = hist.disk0
  /\ Saved => disk = save(store, hist.disk0) /\ Unsaved = {}

\* More than PROGRESS_INTERVAL documents are indexed, none of them is on
\* disk, and the loop is still running.
ManyUnsaved ==
  /\ build.pc = "read"
  /\ build.indexed > PROGRESS_INTERVAL
  /\ Cardinality(Unsaved) > PROGRESS_INTERVAL
  /\ disk = hist.disk0

\* ------------------------------------------------ hybridSearch properties

\* The documents a path returned: the keyword records, the semantic results
\* that pass the similarity threshold, the related records but the seed.
KeywordDocs == {hs.keywordResults[k].uuid : k \in 1..Len(hs.keywordResults)}
SemanticDocs ==
  {hs.semanticResults[k].uuid :
     k \in {j \in 1..Len(hs.semanticResults) :
              normalizeSemanticScore(hs.semanticResults[j].score) >= Unit \div 10}}
RelatedDocs == {hs.related[k].uuid : k \in 1..Len(hs.related)} \ {hs.seed}
PathsOf(uuid) ==
  {p \in {"keyword", "semantic", "related"} :
     \/ p = "keyword" /\ uuid \in KeywordDocs
     \/ p = "semantic" /\ uuid \in SemanticDocs
     \/ p = "related" /\ uuid \in RelatedDocs}

\* C3 as claimed: in every result returned, matchedBy holds each tag at
\* most once and is as long as the number of paths that returned the
\* document.
C3_MatchedByIsASet ==
  hs.pc = "done" =>
    \A k \in 1..Len(hs.merged) :
      LET m == hs.merged[k].matchedBy
      IN /\ \A i, j \in 1..Len(m) : m[i] = m[j] => i = j
         /\ Len(m) = Cardinality(PathsOf(hs.merged[k].uuid))

\* ------------------------------------------------- save and load properties

\* The used part of the vector buffer, element by element.
UsedRegion(s) == Subarray(s.vectors, s.vectorsUsed)

\* C11: a fresh store that loads what save() wrote has the chunk list of the
\* saved store in the same order, the same metadata document map, and a used
\* vector region equal element for element to the saved one, of length
\* chunks.length * dimensions.
C11_SaveLoadRoundTrip ==
  lastOp.op = "reload" =>
    /\ lastOp.ret
    /\ store.chunks = pre.chunks
    /\ store.meta.documents = pre.meta.documents
    /\ store.dimensions = pre.dimensions
    /\ store.vectorsUsed = pre.vectorsUsed
    /\ UsedRegion(store) = UsedRegion(pre)
    /\ store.vectorsUsed = Len(store.chunks) * store.dimensions

\* C11 witness: the saved store had grown its buffer beyond the used length and
\* held chunks of both documents, a negative component and one above 2^24;
\* the loaded buffer is exactly as long as the used region.
C11_Witness ==
  /\ lastOp.op = "reload"
  /\ pre.vectors.cap > pre.vectorsUsed
  /\ ChunkDocs(store) = Docs
  /\ \E k \in 1..store.vectorsUsed : F32Get(store.vectors, k - 1) < 0
  /\ \E k \in 1..store.vectorsUsed : F32Get(store.vectors, k - 1) > 16777216
  /\ store.vectors.cap = store.vectorsUsed

\* C12: hybridSearch never throws: whatever calls fail, it goes on to
\* return a response, and the response's searchPaths holds a path's tag if
\* and only if that path's call ended well in this invocation (tags are
\* pushed only for such calls while the search runs).
C12_PathFailureIsLocal ==
  /\ hs.pc \in {"idle", "keyword", "embed", "related", "done"}
  /\ \A p \in Elems(hs.searchPaths) : calls[p] = "ok"
  /\ hs.pc = "done" =>
       \A p \in {"keyword", "semantic", "related"} :
         p \in Elems(hs.searchPaths) <=> calls[p] = "ok"

\* C12 witness: a response after the keyword call and the related call
\* failed and the semantic search went well.
C12_Witness ==
  /\ hs.pc = "done"
  /\ calls.keyword = "failed" /\ calls.semantic = "ok"
  /\ calls.related = "failed"
  /\ hs.searchPaths = <<"semantic">>
  /\ Len(hs.merged) > 0

\* C13: a search called while no vector index is on disk makes no embedder
\* call, does not throw, never has the semantic tag, and returns
\* indexAvailable = false with searchPaths within {keyword, related}.
C13_NoIndexNoSemantic ==
  (hs.pc # "idle" /\ ~calls.index) =>
    /\ hs.pc \in {"keyword", "related", "done"}
    /\ calls.semantic = "none"
    /\ Elems(hs.searchPaths) \subseteq {"keyword", "related"}
    /\ hs.pc \in {"related", "done"} => ~hs.indexAvailable

\* C13 witness: semantic search was asked for and a store is still cached
\* from an earlier search, but the index directory is gone; the keyword and
\* related paths answered.
C13_Witness ==
  /\ hs.pc = "done"
  /\ ~calls.index
  /\ hs.enableSemantic
  /\ cachedStore # <<>> /\ isReady(cachedStore[1])
  /\ hs.searchPaths = <<"keyword", "related">>
  /\ ~hs.indexAvailable

\* The number of paths that matched a result: its distinct tags.
PathCount(r) == Cardinality(Elems(r.matchedBy))

\* C14 as claimed: the returned list is ordered by number of matched paths
\* descending, then by score descending, and has at most topK entries; a
\* document matched by keyword and semantic is not below one matched by
\* keyword alone.
C14_RankedByPathsThenScore ==
  hs.pc = "done" =>
    /\ Len(hs.merged) <= hs.topK
    /\ \A i, j \in 1..Len(hs.merged) :
         i < j =>
           \/ PathCount(hs.merged[i]) > PathCount(hs.merged[j])
           \/ /\ PathCount(hs.merged[i]) = PathCount(hs.merged[j])
              /\ hs.merged[i].score >= hs.merged[j].score
    /\ \A i, j \in 1..Len(hs.merged) :
         (/\ Elems(hs.merged[i].matchedBy) = {"keyword"}
          /\ Elems(hs.merged[j].matchedBy) = {"keyword", "semantic"}) => j < i

\* ------------------------------------------------------------- chunker steps

ChunkInit ==
  /\ ck = ChunkIdle
  /\ ag = AgentIdle
  /\ agHist = NoAgentHist
  /\ em = EmbedIdle
  /\ emHist = NoEmbedHist
  /\ store = VectorStore(Dims)
  /\ disk = NoDisk
  /\ lastOp = NoOp
  /\ pre = VectorStore(Dims)
  /\ given = [d \in Docs |-> <<>>]
  /\ build = BuildIdle
  /\ hist = NoHist
  /\ cachedStore = <<>>
  /\ hs = SearchIdle
  /\ calls = NoCalls
  /\ sr = NoSearch
  /\ session = NoSession
  /\ sso = SemanticIdle

ChunkRest ==
  <<store, disk, storeHist, buildVars, searchVars, embedVars, ag, agHist, sr,
    session, sso>>

\* The content of a document arrives (raw.content of buildIndex).
ReadContent(content) ==
  /\ ck.pc \in {"idle", "chunked"}
  /\ ck' = [pc |-> "read", content |-> content, chunks |-> <<>>]
  /\ UNCHANGED ChunkRest

\* chunkDocument is applied to it.
ChunkDocument ==
  /\ ck.pc = "read"
  /\ ck' = [ck EXCEPT !.pc = "chunked", !.chunks = chunkDocument(ck.content)]
  /\ UNCHANGED ChunkRest

ChunkNext ==
  \/ \E content \in Contents : ReadContent(content)
  \/ ChunkDocument

\* Documents chunked one after the other.
SpecChunk == ChunkInit /\ [][ChunkNext]_vars

\* ----------------------------------------------------------- agentLoop steps

AgentInit ==
  /\ ag = AgentIdle
  /\ agHist = NoAgentHist
  /\ ck = ChunkIdle
  /\ em = EmbedIdle
  /\ emHist = NoEmbedHist
  /\ store = VectorStore(Dims)
  /\ disk = NoDisk
  /\ lastOp = NoOp
  /\ pre = VectorStore(Dims)
  /\ given = [d \in Docs |-> <<>>]
  /\ build = BuildIdle
  /\ hist = NoHist
  /\ cachedStore = <<>>
  /\ hs = SearchIdle
  /\ calls = NoCalls
  /\ sr = NoSearch
  /\ session = NoSession
  /\ sso = SemanticIdle

AgentRest ==
  <<store, disk, storeHist, buildVars, searchVars, embedVars, ck, sr,
    session, sso>>

\* The rounds and tries after a step: a new chatWithRetry call starts when
\* the loop test passes.
AgentAhead(tries) ==
  IF ag'.pc = "chat" /\ ag'.iterations # ag.iterations
  THEN [agHist EXCEPT !.rounds = @ + 1, !.tries = 0]
  ELSE [agHist EXCEPT !.tries = tries]

\* agentLoop is called with config.maxIterations.
AgentStart(configured) ==
  /\ ag.pc \in {"idle", "returned", "threw"}
  /\ ag' = agentStart(configured)
  /\ agHist' = [NoAgentHist EXCEPT !.rounds = IF ag'.pc = "chat" THEN 1 ELSE 0]
  /\ UNCHANGED AgentRest

\* provider.chat resolves.
ChatReturns(response) ==
  /\ ag.pc = "chat"
  /\ \/ ag.maxIterations <= MaxIterations
     \/ response.stopReason # "tool_use"
     \/ response.toolCalls = LongRunCalls
  /\ ag' = chatReturned(ag, response)
  /\ agHist' = [AgentAhead(agHist.tries + 1) EXCEPT !.response = response]
  /\ UNCHANGED AgentRest

\* provider.chat rejects.
ChatFails(errMsg) ==
  /\ ag.pc = "chat"
  /\ ag' = chatFailed(ag, errMsg)
  /\ agHist' = AgentAhead(agHist.tries + 1)
  /\ UNCHANGED AgentRest

\* The awaited setTimeout(delay) of chatWithRetry resolves.
ChatTimerFires ==
  /\ ag.pc = "sleep"
  /\ ag' = chatTimerFired(ag)
  /\ agHist' = agHist
  /\ UNCHANGED AgentRest

\* executeTool resolves.
ToolReturns(value) ==
  /\ ag.pc = "tool"
  /\ ag' = toolReturned(ag, value)
  /\ agHist' = AgentAhead(agHist.tries)
  /\ UNCHANGED AgentRest

\* executeTool rejects.
ToolThrows(message) ==
  /\ ag.pc = "tool"
  /\ ag.maxIterations <= MaxIterations
  /\ ag' = toolThrew(ag, message)
  /\ agHist' = [AgentAhead(agHist.tries) EXCEPT !.toolThrows = @ + 1]
  /\ UNCHANGED AgentRest

AgentNext ==
  \/ \E configured \in 0..MaxIterations : AgentStart(configured)
  \/ \E response \in Responses : ChatReturns(response)
  \/ \E errMsg \in ChatErrMsgs : ChatFails(errMsg)
  \/ ChatTimerFires
  \/ ToolReturns([records |-> "found"])
  \/ ToolThrows("boom")

\* agentLoop calls one after the other.
SpecAgent == AgentInit /\ [][AgentNext]_vars

\* The same, where every awaited call and timer ends.
SpecAgentFair == SpecAgent /\ WF_vars(AgentNext)

\* ------------------------------------------------------ embedder properties

\* The delays of the backoff, in milliseconds.
Backoff == <<1000, 2000, 4000>>

\* The last API call of the running embedding call.
LastCall == emHist.log[Len(emHist.log)]

\* C15: a GeminiEmbedder call (embedBatch or embedQuery) whose API call
\* fails with a message holding 429, quota, rate or overloaded is retried
\* after 1 s, then 2 s, then 4 s; it makes at most 4 API calls, and when the
\* fourth fails too it throws that last error.  Every call before the last
\* one failed rate-limited; a call that returns returns what its last API
\* call resolved with, so after two rate-limited failures and a success it
\* returns the third call's vectors, having waited 1 s and 2 s.
C15_GeminiBackoff ==
  (em.provider = "gemini" /\ em.pc # "idle") =>
    LET n == Len(emHist.log) IN
    /\ n <= MAX_RETRIES + 1
    /\ \A k \in 1..(n - 1) :
         ~emHist.log[k].ok /\ isRateLimited(emHist.log[k].errMsg)
    /\ em.pc = "call" =>
         /\ emHist.waits = SubSeq(Backoff, 1, n)
         /\ em.attempt = n
    /\ em.pc = "sleep" =>
         /\ n <= MAX_RETRIES
         /\ ~LastCall.ok /\ isRateLimited(LastCall.errMsg)
         /\ emHist.waits = SubSeq(Backoff, 1, n - 1)
         /\ em.delay = Backoff[n]
    /\ em.pc = "returned" =>
         /\ LastCall.ok
         /\ em.result = ValuesOf("gemini", em.method, LastCall.resp)
         /\ emHist.waits = SubSeq(Backoff, 1, n - 1)
    /\ em.pc = "threw" =>
         /\ ~LastCall.ok
         /\ em.error = LastCall.errMsg
         /\ emHist.waits = SubSeq(Backoff, 1, n - 1)
         /\ isRateLimited(LastCall.errMsg) => n = MAX_RETRIES + 1

\* Two rate-limited failures, then a success: the third call's vectors are
\* returned after waits of 1 s and 2 s.
C15_Witness ==
  /\ em.provider = "gemini" /\ em.method = "embedBatch"
  /\ em.pc = "returned"
  /\ Len(emHist.log) = 3
  /\ emHist.log[1].errMsg = Msg429 /\ emHist.log[2].errMsg = MsgOverloaded
  /\ em.result = <<Vec2(0, 5), Vec2(3, 4)>>
  /\ emHist.waits = <<1000, 2000>>

\* C16: an API call that fails with a message holding none of 429, quota,
\* rate, overloaded is the last call of the embedding call, at whatever
\* attempt it happens and with either provider: the call throws that error
\* and no timer is set after it.
C16_FatalErrorNotRetried ==
  \A k \in 1..Len(emHist.log) :
    (~emHist.log[k].ok /\ ~isRateLimited(emHist.log[k].errMsg)) =>
      /\ k = Len(emHist.log)
      /\ em.pc = "threw"
      /\ em.error = emHist.log[k].errMsg
      /\ Len(emHist.waits) = k - 1

\* A fatal error at the third attempt of a Gemini call.
C16_Witness ==
  /\ em.provider = "gemini"
  /\ em.pc = "threw"
  /\ Len(emHist.log) = 3
  /\ LastCall.errMsg = MsgKey
  /\ emHist.waits = <<1000, 2000>>

\* C17: with either provider, an embedBatch call whose first API call fails
\* with a 429 error is retried after a backoff delay: it waits and then
\* makes a second API call; it does not throw after that one call.
C17_BothProvidersRetry ==
  (/\ em.method = "embedBatch"
   /\ Len(emHist.log) = 1
   /\ ~emHist.log[1].ok /\ emHist.log[1].errMsg = Msg429) =>
    \/ em.pc = "sleep" /\ em.delay = Backoff[1]
    \/ em.pc = "call" /\ emHist.waits = <<Backoff[1]>>

\* ------------------------------------------------- statistics of buildIndex

\* C18: the statistics a buildIndex run returns account for every listed
\* document: totalDocuments = indexedDocuments + skippedDocuments + errors.
C18_EveryDocumentCounted ==
  build.pc = "done" =>
    build.stats.totalDocuments =
      build.stats.indexedDocuments + build.stats.skippedDocuments
        + build.stats.errors

\* ---------------------------------------------------- incremental reindex

\* The listed documents a run has to process: all if forced, else those
\* needsReindex holds for on the store as loaded.
Due ==
  {build.allRecords[k].uuid : k \in
     {j \in 1..Len(build.allRecords) :
        \/ build.force
        \/ needsReindex(hist.store0, build.allRecords[j].uuid,
                        build.allRecords[j].modificationDate)}}

\* C19: the documents a run processes are the listed documents that are
\* due (every listed document when forced, else those for which
\* needsReindex holds on the loaded store), in listing order, and the run
\* reports the number of the others as skippedDocuments.  A non-forced run
\* that follows a run which indexed every listed document, over the same
\* listing, processes no document, makes no embedBatch call and reports
\* indexedDocuments = 0.
C19_ProcessesWhatIsDue ==
  /\ build.pc \in {"read", "embed", "done"} =>
       /\ Uuids(build.toIndex) = Due
       /\ hist.attempted \subseteq Due
       /\ build.skipped = Len(build.allRecords) - Cardinality(Due)
       /\ \A u \in hist.upserted \cup {f.uuid : f \in hist.failed} :
            u \in hist.attempted
  /\ build.pc = "done" =>
       /\ hist.attempted = Due
       /\ build.stats.skippedDocuments =
            Len(build.allRecords) - Cardinality(Due)
  /\ (/\ build.pc \in {"read", "embed", "done"}
      /\ hist.prior.ran /\ hist.prior.indexedAll
      /\ build.allRecords = hist.prior.records) =>
       /\ build.pc = "done"
       /\ Due = {}
       /\ hist.embedCalls = 0
       /\ build.stats.indexedDocuments = 0
       /\ build.stats.skippedDocuments = Len(build.allRecords)
       /\ disk = hist.disk0

\* The second run after a run that indexed both listed documents.
C19_Witness ==
  /\ build.pc = "done"
  /\ ~build.force
  /\ hist.prior.ran /\ hist.prior.indexedAll
  /\ build.allRecords = ShortListing
  /\ build.stats.skippedDocuments = 2

\* -------------------------------------------------------- the related path

\* The result map as the keyword and the semantic loop leave it, from what
\* the two calls of the running search returned.
Merged12 ==
  mergeSemantic(mergeKeyword(<<>>, hs.keywordResults, 1),
                hs.semanticResults, 1)

\* The entry of a document in a result map, <<>> if it has none.
EntryOf(results, uuid) ==
  IF Find(results, uuid) = 0 THEN <<>> ELSE results[Find(results, uuid)]

\* C20: getRelatedRecords is called only when enableRelated is set and the
\* result map is not empty, after the keyword call ended and, where the
\* index is available, the embedQuery call ended, the map then holding
\* both merges; its seed is a document of the map no other document
\* outscores.  A search that ends made the call exactly when enableRelated
\* was set and the two paths left a result; and when the call returned an
\* array, the seed's entry is what it was before: no related tag, no boost.
C20_RelatedAfterMergeSeedUntouched ==
  /\ hs.pc = "related" =>
       /\ hs.enableRelated
       /\ Len(hs.results) > 0
       /\ hs.results = Merged12
       /\ calls.keyword # "none"
       /\ hs.indexAvailable => calls.semantic # "none"
       /\ calls.related = "none"
       /\ EntryOf(hs.results, hs.seed) # <<>>
       /\ \A k \in 1..Len(hs.results) :
            hs.results[k].score <= EntryOf(hs.results, hs.seed).score
  /\ hs.pc \in {"idle", "keyword", "embed"} => calls.related = "none"
  /\ hs.pc = "done" =>
       /\ calls.related # "none" <=> (hs.enableRelated /\ Len(Merged12) > 0)
       /\ calls.related # "none" =>
            /\ EntryOf(hs.results, hs.seed) = EntryOf(Merged12, hs.seed)
            /\ \A m \in 1..Len(EntryOf(hs.results, hs.seed).matchedBy) :
                 EntryOf(hs.results, hs.seed).matchedBy[m] # "related"

\* The related call returned a list that holds the seed itself and another
\* document of the map, which got the boost.
C20_Witness ==
  /\ hs.pc = "done"
  /\ calls.related = "ok"
  /\ \E k \in 1..Len(hs.related) : hs.related[k].uuid = hs.seed
  /\ \E k \in 1..Len(hs.results) :
       /\ hs.results[k].uuid # hs.seed
       /\ EntryOf(Merged12, hs.results[k].uuid) # <<>>
       /\ hs.results[k] # EntryOf(Merged12, hs.results[k].uuid)

\* -------------------------------------------------------- chunker properties

\* Whether some chunk holds the character at position p of the content.
InSomeChunk(chunks, p) ==
  \E i \in 1..Len(chunks) : \E k \in 1..Len(chunks[i]) :
    /\ chunks[i][k].src > 0
    /\ chunks[i][k].src <= p
    /\ p <= chunks[i][k].src + chunks[i][k].n - 1

\* The first position of every stretch of non-whitespace characters of the
\* content that no chunk holds: such a stretch starts where a run of the
\* content starts or right after the end of a run of a chunk.
Lost(content, chunks) ==
  LET ends == UNION {{chunks[i][k].src + chunks[i][k].n :
                        k \in 1..Len(chunks[i])} : i \in 1..Len(chunks)}
  IN UNION {{p \in {content[k].src} \cup ends :
               /\ content[k].src <= p
               /\ p <= content[k].src + content[k].n - 1
               /\ ~InSomeChunk(chunks, p)} :
            k \in {j \in 1..Len(content) : ~IsSpace(content[j])}}

\* C21: for a content of at least MIN_CHUNK_CHARS characters, every
\* character that is not whitespace is in at least one of the chunks
\* chunkDocument returns.
C21_NoCharacterLost ==
  (ck.pc = "chunked" /\ StrLen(StrTrim(ck.content)) >= MIN_CHUNK_CHARS) =>
    Lost(ck.content, ck.chunks) = {}

\* ------------------------------------------------------- one call at a time

\* The documents of toIndex before the one in progress.
Before == {build.toIndex[k].uuid : k \in 1..build.i}

\* C22: while buildIndex is in its loop one call is awaited, for the
\* document toIndex[i]: its content read, or the embedBatch call of its
\* batch at offset bpos.  Every document before it has had its read and is
\* done with (upserted, counted as an error, or skipped), no document after
\* it has been touched, the document itself is neither upserted nor
\* counted yet, and the vectors of all its batches before bpos have
\* arrived.
C22_OneAtATime ==
  InLoop =>
    /\ build.i < Len(build.toIndex)
    /\ hist.upserted \cup {f.uuid : f \in hist.failed} \subseteq Before
    /\ hist.upserted \cap {f.uuid : f \in hist.failed} = {}
    /\ build.indexed = Cardinality(hist.upserted)
    /\ build.pc = "read" => hist.attempted = Before
    /\ build.pc = "embed" =>
         /\ hist.attempted = Before \cup {Current.uuid}
         /\ build.bpos < build.nchunks
         /\ build.bpos % EMBED_BATCH_SIZE = 0
         /\ Len(build.allVectors) = build.bpos

\* The second batch of the second document is awaited; the first document
\* is done with.
C22_Witness ==
  /\ build.pc = "embed"
  /\ build.i = 1
  /\ build.bpos = EMBED_BATCH_SIZE
  /\ Len(build.allVectors) = EMBED_BATCH_SIZE
  /\ build.toIndex[1].uuid \in hist.upserted

\* ------------------------------------------------------- interrupted save

\* C23: save() writes the vectors file, then the chunks file, then the
\* meta file.  After a crash behind the first or the second write, with an
\* older index on disk, the directory holds the new vectors, the new
\* chunks only if the second write was made, and the old meta; load()
\* returns true on it and the store holds just that mix.
C23_CrashedSaveIsAccepted ==
  /\ lastOp.op = "save" => disk = savePrefix(pre, disk, 3)
  /\ (lastOp.op = "recover" /\ disk.meta.st = "ok") =>
       /\ lastOp.ret
       /\ store.loaded
       /\ UsedRegion(store) = UsedRegion(pre)
       /\ store.vectorsUsed = pre.vectorsUsed
       /\ store.meta = disk.meta.val
       /\ store.dimensions = disk.meta.val.dimensions
       /\ lastOp.n = 2 => store.chunks = pre.chunks
       /\ (lastOp.n = 1 /\ disk.chunks.st = "ok") =>
            store.chunks = disk.chunks.val

\* After a crash behind the vectors write the loaded store has vectors for
\* more chunks than it lists, and lists a document its meta does not know.
C23_Witness ==
  /\ lastOp.op = "recover" /\ lastOp.ret
  /\ lastOp.n = 1
  /\ store.vectorsUsed # Len(store.chunks) * store.dimensions
  /\ DOMAIN pre.meta.documents # DOMAIN store.meta.documents

\* ----------------------------------------------------- agentLoop properties

\* The tool results fed back so far, those of the running round included.
AllEntries ==
  LET fed == SelectSeq(ag.history, LAMBDA h : h.role = "tool")
      Flat[k \in 0..Len(fed)] ==
        IF k = 0 THEN <<>> ELSE Flat[k - 1] \o fed[k].entries
  IN Flat[Len(fed)] \o (IF ag.pc = "tool" THEN ag.toolResultEntries ELSE <<>>)

\* What holds during and after every agentLoop call: the chatWithRetry
\* calls are counted by `iterations` and never exceed maxIterations, each
\* makes at most MAX_RETRIES_CHAT + 1 provider.chat calls; the history
\* pairs every tool_use message with one result per requested tool call,
\* in order, a thrown tool giving an error result; the call returns the
\* limit text only after maxIterations tool rounds, else what the last
\* response says; it throws only the error of a provider.chat call that
\* was not retryable or was the fourth of its round.
AgentInv ==
  ag.pc # "idle" =>
    /\ agHist.rounds = ag.iterations
    /\ ag.iterations <= ag.maxIterations
    /\ agHist.tries <= MAX_RETRIES_CHAT + 1
    /\ ag.pc = "chat" => agHist.tries = ag.attempt
    /\ ag.pc = "sleep" =>
         agHist.tries = ag.attempt + 1 /\ ag.attempt < MAX_RETRIES_CHAT
    /\ \A k \in 1..Len(ag.history) :
         IF k % 2 = 1
         THEN /\ ag.history[k].role = "assistant"
              /\ k = Len(ag.history) => ag.pc = "tool"
         ELSE /\ ag.history[k].role = "tool"
              /\ Len(ag.history[k].entries) = Len(ag.history[k - 1].entries)
              /\ \A j \in 1..Len(ag.history[k].entries) :
                   ag.history[k].entries[j].toolCallId =
                     ag.history[k - 1].entries[j].id
    /\ ag.pc = "tool" =>
         /\ Len(ag.history) % 2 = 1
         /\ ag.toolCalls = ag.history[Len(ag.history)].entries
         /\ Len(ag.toolResultEntries) = ag.t - 1
         /\ ag.t <= Len(ag.toolCalls)
    /\ Cardinality({k \in 1..Len(AllEntries) :
                      AllEntries[k].output = Stringify([error |-> "boom"])})
         = agHist.toolThrows
    /\ Len(ag.allToolCalls) =
         Len(AllEntries) + (IF ag.pc = "tool" THEN 1 ELSE 0)
    /\ ag.pc = "returned" =>
         \/ /\ agHist.response.stopReason = "end_turn"
            /\ ag.text = agHist.response.text
         \/ /\ agHist.response.stopReason \notin {"end_turn", "tool_use"}
            /\ ag.text = IF agHist.response.text # ""
                         THEN agHist.response.text ELSE UnexpectedText
         \/ /\ agHist.response.stopReason = "tool_use"
            /\ ag.text = LimitText
            /\ ag.iterations = ag.maxIterations
            /\ Len(ag.history) = 2 * ag.maxIterations
    /\ ag.pc = "threw" =>
         /\ ~isRetryableError(ag.error) \/ agHist.tries = MAX_RETRIES_CHAT + 1
         /\ Len(ag.history) % 2 = 0

\* C24 as stated: agentLoop always returns (it never throws), after at
\* most maxIterations LLM calls of at most 4 attempts each, with the
\* model's text on end_turn and on an unexpected stop reason, with the
\* limit text after maxIterations tool rounds; thrown tools are fed back.
C24_AlwaysReturns ==
  /\ AgentInv
  /\ ag.pc # "threw"
  /\ (ag.pc = "returned" /\ agHist.response.stopReason # "tool_use") =>
       ag.text = agHist.response.text

\* C24 amended: every agentLoop call ends, and AgentInv holds throughout:
\* it returns as stated, except that an unexpected stop reason with an
\* empty text returns the placeholder text, or it throws the error of an
\* LLM call that was not retryable or failed four times.
C24_EndsWithinLimit ==
  /\ []AgentInv
  /\ (ag.pc \in {"chat", "sleep", "tool"}) ~> (ag.pc \in {"returned", "threw"})

\* Two tool rounds, one tool of which threw, then the limit text.
C24_Witness ==
  /\ ag.pc = "returned"
  /\ ag.text = LimitText
  /\ ag.maxIterations = 2
  /\ agHist.toolThrows >= 1
  /\ Len(AllEntries) >= 3

\* ------------------------------------------------------ search properties

\* The cosine of the query and the vector of chunk i, 0 if either has
\* norm 0, from the definition.
CosineOf(s, query, i) ==
  LET v == Slice(s, i)
      dot == Sum([j \in 1..s.dimensions |-> query[j] * v[j]], s.dimensions)
      nq == Sum([j \in 1..s.dimensions |-> query[j] * query[j]], s.dimensions)
      nv == Sum([j \in 1..s.dimensions |-> v[j] * v[j]], s.dimensions)
  IN IF nq = 0 \/ nv = 0 THEN 0
     ELSE CHOOSE c \in {(dot * Unit) \div (Sqrt(nq) * Sqrt(nv))} :
            c * Sqrt(nq) * Sqrt(nv) = dot * Unit

\* The chunks search returned, as positions of the store's chunk list.
Returned ==
  {i \in 1..Len(store.chunks) :
     \E k \in 1..Len(sr.results) :
       /\ sr.results[k].uuid = store.chunks[i].uuid
       /\ sr.results[k].chunkIndex = store.chunks[i].chunkIndex}

\* C25: search(q, K) returns min(K, number of chunks) results, each a
\* different chunk of the store with the cosine of q and its vector as
\* score, 0 where q or the vector has norm 0; the scores do not increase
\* along the result, and no chunk left out scores higher than the last
\* one returned.
C25_TopKByScore ==
  sr.pc = "searched" =>
    /\ Len(sr.results) = Min(sr.topK, Len(store.chunks))
    /\ Cardinality(Returned) = Len(sr.results)
    /\ \A k \in 1..Len(sr.results) :
         \E i \in Returned :
           /\ sr.results[k].uuid = store.chunks[i].uuid
           /\ sr.results[k].chunkIndex = store.chunks[i].chunkIndex
           /\ sr.results[k].score = CosineOf(store, sr.query, i)
    /\ \A k \in 1..(Len(sr.results) - 1) :
         sr.results[k].score >= sr.results[k + 1].score
    /\ \A i \in 1..Len(store.chunks) :
         (i \notin Returned /\ Len(sr.results) > 0) =>
           CosineOf(store, sr.query, i)
             <= sr.results[Len(sr.results)].score

\* Three chunks, one with the zero vector; the top two are the chunk in
\* the query's direction and the zero-vector chunk with score 0, the
\* chunk left out points the other way.
C25_Witness ==
  /\ sr.pc = "searched"
  /\ sr.topK = 2
  /\ Len(store.chunks) = 3
  /\ sr.results[1].score = Unit
  /\ sr.results[2].score = 0
  /\ \E i \in Returned : Slice(store, i) = Vec2(0, 0)
  /\ \E i \in 1..Len(store.chunks) :
       i \notin Returned /\ CosineOf(store, sr.query, i) = -Unit

\* ------------------------------------------------------------ score range

\* C26: every score hybridSearch holds or returns is within [0, 1],
\* whatever the raw keyword and related scores (negative or above 100
\* included) and however many boosts a document received.
C26_ScoresWithinUnit ==
  /\ \A k \in 1..Len(hs.results) :
       0 <= hs.results[k].score /\ hs.results[k].score <= Unit
  /\ hs.pc = "done" =>
       \A k \in 1..Len(hs.merged) :
         0 <= hs.merged[k].score /\ hs.merged[k].score <= Unit

\* A search returned a document with raw keyword score 120 that the
\* semantic path boosted, at score 1, and a document with raw related
\* score -10, at score 0.
C26_Witness ==
  /\ hs.pc = "done"
  /\ \E k \in 1..Len(hs.keywordResults) :
       hs.keywordResults[k] = Hit("d2", 120)
  /\ \E k \in 1..Len(hs.merged) :
       /\ hs.merged[k].uuid = "d2"
       /\ hs.merged[k].score = Unit
       /\ Elems(hs.merged[k].matchedBy) = {"keyword", "semantic"}
  /\ \E k \in 1..Len(hs.merged) :
       /\ hs.merged[k].uuid = "d5"
       /\ hs.merged[k].score = 0

\* ------------------------------------------------------- scoped buildIndex

\* What the index directory holds of a document: its chunks with their
\* vectors and its metadata entry, as load() reads them.
Persisted(dk, uuid) == DocView(load(VectorStore(Dims), dk).s, uuid)

\* C27: a buildIndex run of one database, forced or not, leaves what the
\* index directory holds of every document of another database as it was.
C27_OtherDatabasesUnchanged ==
  (build.pc \in {"done", "failed"} /\ build.database # "") =>
    \A k \in 1..Len(Repository) :
      DatabaseOf(Repository[k].uuid) # build.database =>
        Persisted(disk, Repository[k].uuid)
          = Persisted(hist.disk0, Repository[k].uuid)

\* ------------------------------------------------- nothing is ever removed

\* The documents the store held, with chunks, a vector of defined numbers
\* for each, and a metadata entry, when the run had loaded it.
Indexed0 ==
  {u \in ChunkDocs(hist.store0) :
     /\ DocView(hist.store0, u).entry # <<>>
     /\ \A k \in 1..Len(DocView(hist.store0, u).pairs) :
          \A j \in 1..hist.store0.dimensions :
            DocView(hist.store0, u).pairs[k].vector[j] # NaN}

\* C28: at the end of a non-forced buildIndex run every document the
\* loaded index held and the run did not upsert, because it is no longer
\* listed, is up to date, could not be read or embedded, or has too
\* short a content now, has in the store and in the index directory the
\* chunks, vectors and metadata entry it had.
C28_NothingRemoved ==
  (build.pc = "done" /\ ~build.force) =>
    \A u \in Indexed0 \ hist.upserted :
      /\ DocView(store, u) = DocView(hist.store0, u)
      /\ Persisted(disk, u) = Persisted(hist.disk0, u)
      /\ Saved => Persisted(disk, u) = DocView(hist.store0, u)

\* A run that saved: the document no longer listed and the second
\* document, whose content is too short now, are still there in their
\* old version.
C28_Witness ==
  /\ build.pc = "done" /\ ~build.force /\ Saved
  /\ hist.disk0 = PriorDisk
  /\ {"d0", DocIds[2]} \subseteq Indexed0 \ hist.upserted
  /\ DocIds[2] \in hist.attempted
  /\ \A f \in hist.failed : f.uuid # DocIds[2]
  /\ Len(Persisted(disk, "d0").pairs) = 1
  /\ Len(Persisted(disk, DocIds[2]).pairs) = 2
  /\ Persisted(disk, DocIds[2]).entry[1].modificationDate = "t1"

\* ---------------------------------------------------------- the store cache

\* The step of hybridSearch in which getStore() is called.
HybridGetStore == hs.pc = "keyword" /\ hs'.pc # "keyword" /\ hs.enableSemantic
SemanticOnlyGetStore == sso.pc = "idle" /\ sso'.pc # "idle"
GetStoreStep == HybridGetStore \/ SemanticOnlyGetStore
HandedOut == IF hs.pc = "keyword" THEN hs'.store ELSE sso'.store
CacheReady == cachedStore # <<>> /\ isReady(cachedStore[1])

\* After a /index command that returned normally the cache is empty until
\* getStore is called, and the getStore call of the first search after it
\* hands out what load() reads from the index directory as it is then.
AfterIndexReads ==
  /\ [](session.sinceIndex => cachedStore = <<>>)
  /\ [][(GetStoreStep /\ session.sinceIndex /\ indexExists(disk)
           /\ load(VectorStore(0), disk).ret) =>
          /\ HandedOut = <<load(VectorStore(0), disk).s>>
          /\ cachedStore' = HandedOut]_vars

\* C29 as stated: once the cache holds a store with chunks, every getStore
\* call returns that store, whatever the index directory holds, until the
\* cache is reset; and /index resets it.
C29_CachedUntilReset ==
  /\ [][(GetStoreStep /\ CacheReady) =>
          (HandedOut = cachedStore /\ cachedStore' = cachedStore)]_vars
  /\ AfterIndexReads

\* C29 amended: while meta.json and vectors.bin exist, a getStore call
\* returns the cached store with chunks, whatever the files hold now; a
\* call made while one of them is missing returns null and keeps the
\* cache; and /index resets the cache when buildIndex returned.
C29_CachedWhileIndexExists ==
  /\ [][(GetStoreStep /\ CacheReady) =>
          /\ cachedStore' = cachedStore
          /\ HandedOut = IF indexExists(disk) THEN cachedStore ELSE <<>>]_vars
  /\ AfterIndexReads

\* The first search after a /index run that indexed a document is handed
\* the store of the index that run saved, not of the one it found; and
\* before the run a search had cached the old one.
C29_Witness ==
  /\ hs.pc = "embed"
  /\ build.pc = "done" /\ build.indexed > 0
  /\ ~session.sinceIndex
  /\ hist.disk0 = ScopedDisk
  /\ disk = save(store, hist.disk0)
  /\ hs.store = <<load(VectorStore(0), disk).s>>
  /\ hs.store # <<load(VectorStore(0), hist.disk0).s>>
  /\ cachedStore = hs.store

\* ------------------------------------------------------------ dimensionality

\* C30: from its load on, a buildIndex run's store has the dimensionality
\* of the embedder, and every chunk it holds has a vector of that many
\* defined numbers, the used part of the vector array being exactly these.
C30_DimensionsAgree ==
  build.pc \in {"list", "read", "embed", "done"} =>
    /\ store.dimensions = Dims
    /\ store.vectorsUsed = Len(store.chunks) * Dims
    /\ \A i \in 1..Len(store.chunks) :
         \A j \in 1..store.dimensions : Slice(store, i)[j] # NaN

====
